---------------------------- MODULE Spec2Model ----------------------------
(***************************************************************************)
(* Model of the becky weather service: the history store, the location    *)
(* query and the WeatherLoader (updateHistory, fetchAllHistory,           *)
(* backfillHistory).  Every asynchronous function is cut at its awaits:   *)
(* one action per completion of an awaited provider or store call, which  *)
(* then runs the code up to the next await.                               *)
(***************************************************************************)
EXTENDS Integers, Sequences, FiniteSets, TLC

VARIABLES
  locations,   \* table locations, in storage order: Seq of rows
  history,     \* table weather_hourly_history: set of [locationId, time, rain, snow]
  forecast,    \* table weather_hourly_forecast: set of [locationId, time, rain, snow]
  clock,       \* the time now (Unix seconds)
  ticks,       \* how many hours the clock has advanced
  task,        \* the asynchronous calls in flight: Tasks -> frame
  completed,   \* {<<locationId, endTime>>} of the updateHistory runs that resolved
  schema,      \* the store's tables and indexes, and the row of becky_schema
  connection,  \* the connection pool of the Database: open, ending, closed
  monitor      \* the Monitor: its HTTP server, its emitter, its _closeProm

vars == <<locations, history, forecast, clock, ticks, task, completed,
          schema, connection, monitor>>

---------------------------------------------------------------------------
(* Bounds of the model. *)

MaxTicks == 1     \* hours the clock may advance during a behaviour
MaxLimit == 3     \* backfillHistory is called with limit in 0..MaxLimit
MaxRuns == 3      \* backfillHistory invocations that follow one another
MaxHalfHours == 5 \* half hours the clock may advance between forecast refreshes
MaxBackfill == 2  \* BACKFILL_LIMIT is 500; the scraper's call backfills MaxBackfill hours
MaxRows == 3      \* rows the sqlite driver produces for one query
MaxRefreshes == 3 \* forecast refreshes that follow one another
ForecastHours == 2 \* hours in the provider's hourly forecast

Tasks == {"t1", "t2"}

---------------------------------------------------------------------------
(* JavaScript values: a number that may be undefined or NaN. *)

Undefined == [kind |-> "undefined"]
NaN == [kind |-> "NaN"]
Num(n) == [kind |-> "number", value |-> n]
IsNum(x) == x.kind = "number"

Max(a, b) == IF a >= b THEN a ELSE b

---------------------------------------------------------------------------
(* time_util: Milliseconds.HOUR, hourStart().  weather_loader: the window. *)

HOUR == 3600
MAX_FETCH_WINDOW == 48 * HOUR

\* The hour the behaviours start in: 2023-11-14T22:00:00Z.
T0 == 472222 * HOUR

\* Mutant: the minutes and seconds are kept.
hourStart_Now == clock

\* dayjs().minute(0).second(0).unix()
hourStart == clock - (clock % HOUR)

---------------------------------------------------------------------------
(* The store. *)

Seattle == [id |-> "47.61,-122.33", name |-> "Seattle",
            lat |-> 47606, lon |-> -122332]
Portland == [id |-> "45.52,-122.68", name |-> "Portland",
             lat |-> 45515, lon |-> -122678]
Registered == {Seattle, Portland}
LocationIds == {l.id : l \in Registered}

Hours(from, to) == {T0 - k * HOUR : k \in to..from}

\* An observation of the provider: rain and snow of the hour, each optional.
Dry == [rain |-> Undefined, snow |-> Undefined]

\* rain_mm and snow_mm of a row: weather.rain?.['1h'] ?? 0
Mm(x) == IF IsNum(x) THEN x.value ELSE 0

\* The row that insertWeatherHistory builds.
HistoryRow(locationId, time, weather) ==
  [locationId |-> locationId, time |-> time,
   rain |-> Mm(weather.rain), snow |-> Mm(weather.snow)]

\* The history a location may hold when a behaviour starts: none, two hours
\* older than the 48-hour window, a run ending at T0 - 10h, a run ending at
\* T0 - 1h.
InitialHistories ==
  {{}, Hours(52, 51), Hours(12, 10), Hours(3, 1)}

Permutations2(S) ==
  {s \in [1..Cardinality(S) -> S] : \A i, j \in DOMAIN s : i # j => s[i] # s[j]}

HistoryTimes(locationId) ==
  {r.time : r \in {x \in history : x.locationId = locationId}}

SetMax(S) == CHOOSE m \in S : \A x \in S : x <= m
SetMin(S) == CHOOSE m \in S : \A x \in S : m <= x

\* Mutant: MIN(weather_time) in place of MAX(weather_time).
LastWeatherTime_Min(locationId) ==
  IF HistoryTimes(locationId) = {} THEN Undefined
  ELSE Num(SetMin(HistoryTimes(locationId)))

\* history.weather_time of selectLocationQuery: MAX(weather_time) of the
\* location, NULL (undefined) by the LEFT JOIN when it has no history row.
LastWeatherTime(locationId) ==
  IF HistoryTimes(locationId) = {} THEN Undefined
  ELSE Num(SetMax(HistoryTimes(locationId)))

ForecastTimes(locationId) ==
  {r.time : r \in {x \in forecast : x.locationId = locationId}}

\* forecast.forecast_time of selectLocationQuery: MIN(forecast_time) of the
\* location, NULL (undefined) when it has no forecast row.
OldestForecastTime(locationId) ==
  IF ForecastTimes(locationId) = {} THEN Undefined
  ELSE Num(SetMin(ForecastTimes(locationId)))

\* One row of selectLocationQuery.
selectLocationQuery(l) ==
  [id |-> l.id, name |-> l.name, lat |-> l.lat, lon |-> l.lon,
   lastWeatherTime |-> LastWeatherTime(l.id),
   oldestForecastTime |-> OldestForecastTime(l.id)]

\* Database.listLocations: the rows of selectLocationQuery in storage order.
listLocations == [i \in DOMAIN locations |-> selectLocationQuery(locations[i])]

\* Mutant: ORDER BY weather_time DESC, the newest weather_time.
getOldestForecast_Newest(locationId) ==
  IF HistoryTimes(locationId) = {} THEN Undefined
  ELSE Num(SetMax(HistoryTimes(locationId)))

\* Database.getOldestForecast: the oldest weather_time of the location's
\* history (res[0]?.weatherTime: undefined when there is no row).
getOldestForecast(locationId) ==
  IF HistoryTimes(locationId) = {} THEN Undefined
  ELSE Num(SetMin(HistoryTimes(locationId)))

\* Mutant: the table has no primary key.
KeyExists_Never(locationId, time) == FALSE

\* The primary key (location_id, weather_time) of weather_hourly_history.
KeyExists(locationId, time) ==
  \E r \in history : r.locationId = locationId /\ r.time = time

\* The table after INSERT INTO weather_hourly_history of a new key.
InsertedRow(locationId, time, weather) ==
  history \cup {HistoryRow(locationId, time, weather)}

---------------------------------------------------------------------------
(* The process around the tables: the schema Database.open has migrated,   *)
(* the connection pool, the Monitor.                                       *)

SCHEMA_VERSION == 2

\* What version-1.sql and version-2.sql create.
Version1Objects ==
  {"locations", "weather_hourly_history", "ordered_weather_hourly_history",
   "becky_schema"}
Version2Objects == {"weather_hourly_forecast", "ordered_weather_hourly_forecast"}

\* A store: its tables and indexes, the version in the row of becky_schema
\* (undefined without the table), the task whose script is running.
Store(objects, version) == [objects |-> objects, version |-> version, lock |-> "none"]

Migrated == Store(Version1Objects \cup Version2Objects, Num(SCHEMA_VERSION))

\* The pool of postgres(): open. atEnd holds the frames of the tasks when
\* end() was called, main the position of the scraper's main function.
Connected == [state |-> "open", atEnd |-> <<>>, main |-> "none"]

\* The Monitor after its constructor: the server listens, close() has not
\* been called.
Started ==
  [server |-> "listening", closeProm |-> "unset", listeners |-> 0,
   listener |-> "none", scraping |-> 0, served |-> 0, notFound |-> 0]

\* Database.open has resolved and the Monitor is constructed.
Serving == schema = Migrated /\ connection = Connected /\ monitor = Started

---------------------------------------------------------------------------
(* Frames of the asynchronous calls. *)

NoLocation == [id |-> "none"]

\* The locals of a call (op, pc, location, endTime, time, weather, rows, cursor,
\* selected, youngestDate, i, limit), how it ended (error, failedAt) and what
\* it did: the provider calls made, the rows inserted, the updateHistory calls
\* of fetchAllHistory, the 'Backfilling' line logged; for the claims, what the
\* store held when it started and what the invocations before it did.
\* For setForecast: the batch (hourly), the rows its DELETE statement sees
\* (snapshot), the rows its transaction has deleted and written; for
\* listForecast: the rows read (seen); for the claims, the location's forecast
\* rows at the call (before) and after the commit (atCommit), and whether
\* another setForecast for the location committed meanwhile (disturbed).
\* For a request handler that awaits a store call: its name (handler); for
\* _updateForecast, what its calls so far found (refreshes).  For
\* _addLocation and getLocation: the request (req), the looked-up text (key),
\* what getLocation resolved with (result), what the socket emitted
\* (response); for the claims, table locations when the INSERT ran (stored).
\* For _summarizeWeatherHistory: the three cutoffs, the totals, and for the
\* claims the time the cutoffs were taken at (scanAt).
\* For _summarizeForecast: maxTime and the summary, and for the claims the
\* time maxTime was taken at (outlookAt).
\* For _whereToGo (endpoint): the text asked for (where), the geocoded point
\* (origin), the rows of the bounding-box scan (found) and how many of them
\* the loop has taken (index), what the socket emitted before a rejection
\* (events); for the claims, what became of each candidate taken (trail).
\* For Database.open: the version _schemaVersion returned (schemaVersion),
\* the number of the script _updateSchema runs (script), the statement of it
\* the store executes (statement), the store as the script's transaction has
\* it (staged) and as it was when the script began (begun); for the claims, the version row when it was read (recorded)
\* and the scripts of this call that were committed (applied), and of every
\* script run the store it started from, how it ended and the store after
\* it (ran).
IdleFrame ==
  [op |-> "none", pc |-> "idle",
   location |-> NoLocation, endTime |-> 0, time |-> Undefined, weather |-> Dry,
   error |-> "none",
   rows |-> <<>>, cursor |-> 0,
   selected |-> NoLocation, youngestDate |-> Undefined,
   i |-> 0, limit |-> 0, backfilling |-> FALSE,
   calls |-> <<>>, inserted |-> <<>>, syncs |-> <<>>,
   afterCompleted |-> FALSE, failedAt |-> <<>>,
   batchEndTime |-> 0, oldestAtStart |-> <<>>, runs |-> <<>>,
   hourly |-> <<>>, snapshot |-> {}, deleted |-> {}, written |-> {},
   seen |-> <<>>, before |-> {}, disturbed |-> FALSE, atCommit |-> {},
   handler |-> "none", refreshes |-> <<>>,
   req |-> NoLocation, key |-> "", result |-> Undefined,
   response |-> [kind |-> "none"], stored |-> <<>>,
   scanAt |-> 0, aDayAgo |-> 0, aWeekAgo |-> 0, aMonthAgo |-> 0,
   rain |-> [day |-> 0, week |-> 0, month |-> 0],
   snow |-> [day |-> 0, week |-> 0, month |-> 0],
   outlookAt |-> 0, maxTime |-> 0, summary |-> [rain |-> 0, snow |-> 0],
   endpoint |-> "none", where |-> "", origin |-> NoLocation,
   found |-> <<>>, index |-> 0, events |-> <<>>, trail |-> <<>>,
   schemaVersion |-> 0, recorded |-> Undefined, script |-> 0, statement |-> 0,
   staged |-> Store({}, Undefined), applied |-> <<>>, ran |-> <<>>,
   begun |-> Store({}, Undefined),
   force |-> FALSE, atCall |-> Started,
   metric |-> "none", func |-> [kind |-> "none", value |-> "none"],
   observed |-> 0, passed |-> [kind |-> "none", value |-> "none"],
   nextPromises |-> <<>>, eachPromises |-> <<>>, promises |-> <<>>,
   produced |-> <<>>, received |-> <<>>, held |-> 0, driver |-> "none"]

\* The frame of a call of `op` that starts.
NewFrame(op) == [IdleFrame EXCEPT !.op = op]

\* Each task makes one call.
CanStart(t) == task[t].pc = "idle"

Init ==
  /\ locations \in Permutations2(Registered)
  /\ history \in
       {UNION {{HistoryRow(id, h, Dry) : h \in f[id]} : id \in LocationIds} :
          f \in [LocationIds -> InitialHistories]}
  /\ forecast = {}
  /\ clock = T0
  /\ ticks = 0
  /\ Serving
  /\ task = [t \in Tasks |-> IdleFrame]
  /\ completed = {}


---------------------------------------------------------------------------
(* The provider: OpenWeather.getHistorical(lat, lon, dt). *)

\* The frame once getHistorical has been called: it awaits the response.
getHistorical(f, l, time) ==
  [f EXCEPT !.pc = "getHistorical", !.time = time,
            !.calls = Append(@, [lat |-> l.lat, lon |-> l.lon, dt |-> time])]

\* A rejected await that nothing catches: the call rejects with the error.
Rejected(f, error) ==
  [f EXCEPT !.pc = "rejected", !.error = error, !.failedAt = <<f.time>>]

---------------------------------------------------------------------------
(* WeatherLoader.updateHistory(location, endTime). *)

\* What a caller passes as endTime: nothing, 0, this hour, the next hour.
EndTimeArgs == {Undefined, Num(0), Num(T0), Num(T0 + HOUR)}

\* if (!endTime) endTime = hourStart();
EffectiveEndTime(endTimeArg) ==
  IF endTimeArg = Undefined \/ endTimeArg = Num(0) THEN hourStart
  ELSE endTimeArg.value

\* Mutant: the window's begin is not taken into account.
FirstTime_NoWindow(location, endTime) ==
  IF location.lastWeatherTime = Undefined THEN endTime - MAX_FETCH_WINDOW
  ELSE location.lastWeatherTime.value + HOUR

\* Math.max(beginTime, lastTime + HOUR), lastTime being -Infinity when the
\* location has no lastWeatherTime.
FirstTime(location, endTime) ==
  LET beginTime == endTime - MAX_FETCH_WINDOW
  IN IF location.lastWeatherTime = Undefined THEN beginTime
     ELSE Max(beginTime, location.lastWeatherTime.value + HOUR)

\* Mutant: time <= endTime.
InWindow_Inclusive(time, endTime) == time <= endTime

\* The loop test: time < endTime.
InWindow(time, endTime) == time < endTime

\* Mutant: a step of two hours.
NextTime_TwoHours(time) == time + 2 * HOUR

\* The loop step: time += HOUR.
NextTime(time) == time + HOUR

DAY == 24 * HOUR
WEEK == 7 * DAY

\* The frame when updateHistory returns: fetchAllHistory goes on to await the
\* next row of its cursor; _summarizeWeatherHistory takes its three cutoffs
\* (a day, a week, 4 weeks before now), zeroes its totals and opens the cursor
\* of listWeather; a direct call resolves.
UpdateHistoryReturns(f) ==
  IF f.op = "fetchAllHistory" THEN [f EXCEPT !.pc = "listLocations"]
  ELSE IF f.handler = "_summarizeWeatherHistory"
    THEN [f EXCEPT !.pc = "listWeather", !.scanAt = clock,
                   !.rain = [day |-> 0, week |-> 0, month |-> 0],
                   !.snow = [day |-> 0, week |-> 0, month |-> 0],
                   !.aDayAgo = clock - DAY, !.aWeekAgo = clock - WEEK,
                   !.aMonthAgo = clock - 4 * WEEK]
  ELSE [f EXCEPT !.pc = "resolved"]

\* Mutant: updateHistory is not awaited, the caller goes on at once.
UpdateLoop_NotAwaited(f, time) == UpdateHistoryReturns(f)

\* The loop of updateHistory from its test on, up to the next await.
UpdateLoop(f, time) ==
  IF InWindow(time, f.endTime) THEN getHistorical(f, f.location, Num(time))
  ELSE UpdateHistoryReturns(f)

\* updateHistory entered with `location` and the effective endTime.
updateHistory(f, location, endTime) ==
  UpdateLoop([f EXCEPT !.location = location, !.endTime = endTime,
                       !.afterCompleted = <<location.id, endTime>> \in completed],
             FirstTime(location, endTime))

\* The runs that have resolved, once frame g is reached from the loop test at
\* `time` of frame f.
Completed(f, time) ==
  IF InWindow(time, f.endTime) THEN completed
  ELSE completed \cup {<<f.location.id, f.endTime>>}

\* A caller reads the location from the store and calls updateHistory.
StartUpdateHistory(t, l, endTimeArg) ==
  /\ CanStart(t)
  /\ LET location == selectLocationQuery(l)
         endTime == EffectiveEndTime(endTimeArg)
         f == [NewFrame("updateHistory") EXCEPT !.location = location,
                                                    !.endTime = endTime]
     IN /\ task' = [task EXCEPT ![t] = updateHistory(f, location, endTime)]
        /\ completed' = Completed(f, FirstTime(location, endTime))
  /\ UNCHANGED <<locations, forecast, history, clock, ticks, schema, connection, monitor>>

---------------------------------------------------------------------------
(* WeatherLoader.backfillHistory(limit). *)

\* JavaScript's !x, x < y and x - n on numbers that may be undefined or NaN.
Falsy(x) == ~IsNum(x) \/ x.value = 0
Less(x, y) == IsNum(x) /\ IsNum(y) /\ x.value < y.value
Minus(x, n) == IF IsNum(x) THEN Num(x.value - n) ELSE NaN

\* Mutant: the location with the earliest oldest row is kept.
Younger_Oldest(youngestDate, date) ==
  Falsy(youngestDate) \/ Less(date, youngestDate)

\* if (!youngestDate || youngestDate < date)
Younger(youngestDate, date) ==
  Falsy(youngestDate) \/ Less(youngestDate, date)

\* Mutant: the first hour is the oldest stored hour itself.
BackfillFirstTime_Oldest(youngestDate) == youngestDate

\* let time = youngestDate - Milliseconds.HOUR;
BackfillFirstTime(youngestDate) == Minus(youngestDate, HOUR)

\* The loop of backfillHistory from its test on, up to the next await.
BackfillLoop(f, i, time) ==
  IF i < f.limit THEN getHistorical([f EXCEPT !.i = i], f.selected, time)
  ELSE [f EXCEPT !.i = i, !.time = time, !.pc = "resolved"]

---------------------------------------------------------------------------
(* Completions of the awaited calls. *)

\* The location whose history the loop of frame f fills.
Target(f) == IF f.op = "backfillHistory" THEN f.selected ELSE f.location

\* getHistorical resolves with an observation: insertWeatherHistory is called
\* with weather.data[0] and awaited.
GetHistoricalResponds(t, weather) ==
  /\ task[t].pc = "getHistorical"
  /\ task' = [task EXCEPT ![t].pc = "insertWeatherHistory", ![t].weather = weather]
  /\ UNCHANGED <<locations, forecast, history, clock, ticks, schema, connection, monitor, completed>>

\* getHistorical resolves with the observation of a dry hour.
GetHistoricalReturns(t) ==
  /\ task[t].pc = "getHistorical"
  /\ task' = [task EXCEPT ![t].pc = "insertWeatherHistory", ![t].weather = Dry]
  /\ UNCHANGED <<locations, forecast, history, clock, ticks, schema, connection, monitor, completed>>

\* getHistorical rejects (a status other than 200, a network error).
GetHistoricalFails(t) ==
  /\ task[t].pc = "getHistorical"
  /\ task' = [task EXCEPT ![t] = Rejected(@, "ProviderError")]
  /\ UNCHANGED <<locations, forecast, history, clock, ticks, schema, connection, monitor, completed>>

\* The frame after a successful insert: the loop's step, test and next call.
AfterInsert(f) ==
  LET g == [f EXCEPT !.inserted =
                        Append(@, HistoryRow(Target(f).id, f.time.value, f.weather))]
  IN IF f.op = "backfillHistory"
       THEN BackfillLoop(g, f.i + 1, Minus(f.time, HOUR))
     ELSE UpdateLoop(g, NextTime(f.time.value))

\* The store executes the INSERT of insertWeatherHistory and answers: a time
\* that is no number and a key that exists are errors, which nothing catches.
InsertWeatherHistoryReturns(t) ==
  LET f == task[t] IN
  /\ f.pc = "insertWeatherHistory"
  /\ IF ~IsNum(f.time)
       THEN /\ task' = [task EXCEPT ![t] = Rejected(f, "StorageError")]
            /\ UNCHANGED <<history, completed>>
     ELSE IF KeyExists(Target(f).id, f.time.value)
       THEN /\ task' = [task EXCEPT ![t] = Rejected(f, "UniqueViolation")]
            /\ UNCHANGED <<history, completed>>
     ELSE /\ history' = InsertedRow(Target(f).id, f.time.value, f.weather)
          /\ task' = [task EXCEPT ![t] = AfterInsert(f)]
          /\ completed' = IF f.op = "backfillHistory" THEN completed
                          ELSE Completed(f, NextTime(f.time.value))
  /\ UNCHANGED <<locations, forecast, clock, ticks, schema, connection, monitor>>

\* Mutant: the failing insert takes the rows of the earlier hours with it, as
\* if the loop ran in one transaction.
InsertWeatherHistoryFails_Rollback(t) ==
  /\ task[t].pc = "insertWeatherHistory"
  /\ task' = [task EXCEPT ![t] = Rejected(@, "StorageError")]
  /\ history' = history \ {task[t].inserted[k] : k \in DOMAIN task[t].inserted}
  /\ UNCHANGED <<locations, forecast, clock, ticks, schema, connection, monitor, completed>>

\* The INSERT fails for another reason (connection lost, ...).
InsertWeatherHistoryFails(t) ==
  /\ task[t].pc = "insertWeatherHistory"
  /\ task' = [task EXCEPT ![t] = Rejected(@, "StorageError")]
  /\ UNCHANGED <<locations, forecast, history, clock, ticks, schema, connection, monitor, completed>>

\* An hour passes.
Tick ==
  /\ ticks < MaxTicks
  /\ clock' = clock + HOUR
  /\ ticks' = ticks + 1
  /\ UNCHANGED <<locations, forecast, history, task, completed,
                 schema, connection, monitor>>

---------------------------------------------------------------------------
(* Callers of updateHistory that run concurrently (two chat sessions). *)

\* Two callers synchronize Seattle; Portland's rows are in the table too.
SyncTargets == {Seattle}

InitSync ==
  /\ Init
  /\ locations = <<Seattle, Portland>>
  /\ HistoryTimes(Portland.id) = Hours(12, 10)

\* The callers are interchangeable: t1 is the one that calls first.
FirstCaller(t) == t = "t1" \/ task["t1"].pc # "idle"

NextSync ==
  \/ \E t \in Tasks, l \in SyncTargets, e \in EndTimeArgs :
       FirstCaller(t) /\ StartUpdateHistory(t, l, e)
  \/ \E t \in Tasks : GetHistoricalReturns(t)
  \/ \E t \in Tasks : GetHistoricalFails(t)
  \/ \E t \in Tasks : InsertWeatherHistoryReturns(t)
  \/ \E t \in Tasks : InsertWeatherHistoryFails(t)

SpecSync == InitSync /\ [][NextSync]_vars

---------------------------------------------------------------------------
(* WeatherLoader.fetchAllHistory(). *)

\* A store query that is awaited rejects (the cursor's next row, the oldest
\* history row).
QueryFails(t) ==
  /\ task[t].pc \in {"listLocations", "getOldestForecast"}
  /\ task' = [task EXCEPT ![t] = [@ EXCEPT !.pc = "rejected", !.error = "QueryError"]]
  /\ UNCHANGED <<locations, forecast, history, clock, ticks, schema, connection, monitor, completed>>

\* const endTime = hourStart(); then the cursor of listLocations is opened
\* and its first row awaited.
StartFetchAllHistory(t) ==
  /\ CanStart(t)
  /\ task' = [task EXCEPT ![t] =
                [NewFrame("fetchAllHistory") EXCEPT
                   !.pc = "listLocations", !.batchEndTime = hourStart,
                   !.rows = listLocations, !.cursor = 0]]
  /\ UNCHANGED <<locations, forecast, history, clock, ticks, schema, connection, monitor, completed>>

\* Mutant: the end time is taken anew for each location.
SharedEndTime_PerLocation(f) == hourStart

\* The endTime fetchAllHistory passes to updateHistory.
SharedEndTime(f) == f.batchEndTime

\* The cursor answers: with the next location, for which updateHistory is
\* called and awaited, or with its end, and fetchAllHistory resolves.
FetchAllHistoryNextLocation(t) ==
  LET f == task[t] IN
  /\ f.op = "fetchAllHistory" /\ f.pc = "listLocations"
  /\ IF f.cursor < Len(f.rows)
       THEN LET location == f.rows[f.cursor + 1]
                endTime == EffectiveEndTime(Num(SharedEndTime(f)))
                g == [f EXCEPT !.cursor = f.cursor + 1,
                               !.location = location, !.endTime = endTime,
                               !.syncs = Append(@, [location |-> location,
                                                    endTime |-> endTime,
                                                    firstCall |-> Len(f.calls) + 1])]
            IN /\ task' = [task EXCEPT ![t] = updateHistory(g, location, endTime)]
               /\ completed' = Completed(g, FirstTime(location, endTime))
     ELSE /\ task' = [task EXCEPT ![t].pc = "resolved"]
          /\ UNCHANGED completed
  /\ UNCHANGED <<locations, forecast, history, clock, ticks, schema, connection, monitor>>

\* The scraper's fetchAllHistory, alone.
NextBatch ==
  \/ StartFetchAllHistory("t1")
  \/ FetchAllHistoryNextLocation("t1")
  \/ QueryFails("t1")
  \/ GetHistoricalReturns("t1")
  \/ GetHistoricalFails("t1")
  \/ InsertWeatherHistoryReturns("t1")
  \/ InsertWeatherHistoryFails("t1")
  \/ Tick

SpecBatch == Init /\ [][NextBatch]_vars

---------------------------------------------------------------------------
(* backfillHistory: its calls and the completions of its queries. *)

\* The limits backfillHistory is called with.
Limits == 0..MaxLimit

\* backfillHistory opens the cursor of listLocations and awaits its first row.
StartBackfillHistory(t, limit) ==
  /\ CanStart(t)
  /\ task' = [task EXCEPT ![t] =
                [NewFrame("backfillHistory") EXCEPT
                   !.pc = "listLocations", !.limit = limit,
                   !.rows = listLocations, !.cursor = 0,
                   !.oldestAtStart = [id \in LocationIds |-> getOldestForecast(id)]]]
  /\ UNCHANGED <<locations, forecast, history, clock, ticks, schema, connection, monitor, completed>>

\* The cursor answers: with the next location, whose oldest history time is
\* asked for, or with its end: without a selected location backfillHistory
\* returns, with one it logs 'Backfilling' and enters its loop.
BackfillNextLocation(t) ==
  LET f == task[t] IN
  /\ f.op = "backfillHistory" /\ f.pc = "listLocations"
  /\ task' = [task EXCEPT ![t] =
       IF f.cursor < Len(f.rows)
         THEN [f EXCEPT !.cursor = f.cursor + 1,
                        !.location = f.rows[f.cursor + 1],
                        !.pc = "getOldestForecast"]
       ELSE IF f.selected = NoLocation THEN [f EXCEPT !.pc = "resolved"]
       ELSE BackfillLoop([f EXCEPT !.backfilling = TRUE], 0,
                         BackfillFirstTime(f.youngestDate))]
  /\ UNCHANGED <<locations, forecast, history, clock, ticks, schema, connection, monitor, completed>>

\* getOldestForecast answers: the location is selected if its date is younger.
GetOldestForecastReturns(t) ==
  LET f == task[t]
      date == getOldestForecast(f.location.id)
  IN
  /\ f.pc = "getOldestForecast"
  /\ task' = [task EXCEPT ![t] =
       IF Younger(f.youngestDate, date)
         THEN [f EXCEPT !.youngestDate = date, !.selected = f.location,
                        !.pc = "listLocations"]
       ELSE [f EXCEPT !.pc = "listLocations"]]
  /\ UNCHANGED <<locations, forecast, history, clock, ticks, schema, connection, monitor, completed>>

\* The scraper's backfillHistory, alone.
NextBackfill ==
  \/ \E limit \in Limits : StartBackfillHistory("t1", limit)
  \/ BackfillNextLocation("t1")
  \/ GetOldestForecastReturns("t1")
  \/ QueryFails("t1")
  \/ GetHistoricalReturns("t1")
  \/ GetHistoricalFails("t1")
  \/ InsertWeatherHistoryReturns("t1")
  \/ InsertWeatherHistoryFails("t1")

SpecBackfill == Init /\ [][NextBackfill]_vars

---------------------------------------------------------------------------
(* The scraper run again and again: one backfillHistory after the other. *)

\* What an invocation that has ended leaves in the log.
RunRecord(f) ==
  [selected |-> f.selected, limit |-> f.limit,
   calls |-> f.calls, inserted |-> f.inserted]

\* backfillHistory has resolved and is called again.
AgainBackfillHistory(t, limit) ==
  LET f == task[t] IN
  /\ f.op = "backfillHistory" /\ f.pc = "resolved"
  /\ Len(f.runs) + 1 < MaxRuns
  /\ task' = [task EXCEPT ![t] =
                [NewFrame("backfillHistory") EXCEPT
                   !.pc = "listLocations", !.limit = limit,
                   !.rows = listLocations, !.cursor = 0,
                   !.oldestAtStart = [id \in LocationIds |-> getOldestForecast(id)],
                   !.runs = Append(f.runs, RunRecord(f))]]
  /\ UNCHANGED <<locations, forecast, history, clock, ticks, schema, connection, monitor, completed>>

NextRepeat ==
  \/ \E limit \in Limits : StartBackfillHistory("t1", limit)
  \/ \E limit \in Limits : AgainBackfillHistory("t1", limit)
  \/ BackfillNextLocation("t1")
  \/ GetOldestForecastReturns("t1")
  \/ QueryFails("t1")
  \/ GetHistoricalReturns("t1")
  \/ GetHistoricalFails("t1")
  \/ InsertWeatherHistoryReturns("t1")
  \/ InsertWeatherHistoryFails("t1")

SpecRepeat == Init /\ [][NextRepeat]_vars

---------------------------------------------------------------------------
(* Database.setForecast and Database.listForecast.  sql.begin runs the     *)
(* DELETE and the INSERT in one transaction of the store, at its default   *)
(* isolation (read committed): a statement sees the rows committed when it *)
(* starts, waits for a row another open transaction has deleted or for a   *)
(* key another open transaction has written, and its own changes show to   *)
(* others at COMMIT.                                                       *)

\* An hourly forecast of the provider: n hours from `from` on.
Hourly(from, n, rain) ==
  [k \in 1..n |-> [dt |-> from + (k - 1) * HOUR, rain |-> rain, snow |-> Undefined]]

\* The row that setForecast builds for one hour of the batch.
ForecastRow(locationId, hour) ==
  [locationId |-> locationId, time |-> hour.dt,
   rain |-> Mm(hour.rain), snow |-> Mm(hour.snow)]

\* The rows of a batch.
ForecastRows(locationId, hourly) ==
  {ForecastRow(locationId, hourly[k]) : k \in DOMAIN hourly}

\* The committed forecast rows of a location.
StoredForecast(locationId) == {r \in forecast : r.locationId = locationId}

\* The batches setForecast is called with: two for the same hours, one for
\* later hours.
Batches ==
  {Hourly(T0, 2, Num(1)), Hourly(T0, 2, Num(2)), Hourly(T0 + 2 * HOUR, 2, Num(3))}

\* The forecast a location may hold at the start: none, or an earlier batch.
InitialForecasts == {<<>>, Hourly(T0 - HOUR, 2, Undefined)}

\* The chat sessions that write and read forecasts.
Sessions == Tasks \cup {"t3"}

InitForecast ==
  /\ locations = <<Seattle, Portland>>
  /\ history = {}
  /\ forecast \in
       {ForecastRows(Seattle.id, b) \cup ForecastRows(Portland.id, Hourly(T0, 2, Num(1))) :
          b \in InitialForecasts}
  /\ clock = T0
  /\ ticks = 0
  /\ Serving
  /\ task = [t \in Sessions |-> IdleFrame]
  /\ completed = {}

\* The transactions that are open, other than that of task t.
OpenOthers(t) ==
  {u \in DOMAIN task \ {t} : task[u].op = "setForecast"
                         /\ task[u].pc \in {"txDelete", "txInsert", "txCommit"}}

\* setForecast is called: BEGIN, and the DELETE statement starts.
StartSetForecast(t, locationId, hourly) ==
  /\ CanStart(t)
  /\ task' = [task EXCEPT ![t] =
                [NewFrame("setForecast") EXCEPT
                   !.pc = "txDelete", !.location = [id |-> locationId],
                   !.hourly = hourly,
                   !.snapshot = StoredForecast(locationId),
                   !.before = StoredForecast(locationId)]]
  /\ UNCHANGED <<locations, forecast, history, clock, ticks, schema, connection, monitor, completed>>

\* The DELETE completes: it has deleted the rows it saw that are still
\* there, once no other open transaction holds one of them; the INSERT starts.
DeleteForecastReturns(t) ==
  LET f == task[t]
      rows == f.snapshot \cap forecast
  IN
  /\ f.op = "setForecast" /\ f.pc = "txDelete"
  /\ \A u \in OpenOthers(t) : task[u].deleted \cap rows = {}
  /\ task' = [task EXCEPT ![t].deleted = rows, ![t].pc = "txInsert"]
  /\ UNCHANGED <<locations, forecast, history, clock, ticks, schema, connection, monitor, completed>>

\* The committed rows, not deleted by f, whose key a row of f's batch has.
KeyConflicts(f) ==
  {r \in forecast \ f.deleted :
     \E w \in ForecastRows(f.location.id, f.hourly) :
       w.locationId = r.locationId /\ w.time = r.time}

\* The INSERT completes, once no other open transaction has written one of
\* its keys or deleted a row that has one: with a unique violation when a
\* committed row has one of its keys, which rolls the transaction back and
\* which setForecast logs and throws again; else the rows are written and
\* COMMIT is sent.
InsertForecastReturns(t) ==
  LET f == task[t]
      rows == ForecastRows(f.location.id, f.hourly)
  IN
  /\ f.op = "setForecast" /\ f.pc = "txInsert"
  /\ \A u \in OpenOthers(t) :
       /\ \A w \in rows, r \in task[u].written :
            ~(w.locationId = r.locationId /\ w.time = r.time)
       /\ task[u].deleted \cap KeyConflicts(f) = {}
  /\ task' = [task EXCEPT ![t] =
       IF KeyConflicts(f) # {}
         THEN [f EXCEPT !.pc = "rejected", !.error = "UniqueViolation",
                        !.failedAt = <<f.pc>>, !.deleted = {}, !.written = {}]
       ELSE [f EXCEPT !.written = rows, !.pc = "txCommit"]]
  /\ UNCHANGED <<locations, forecast, history, clock, ticks, schema, connection, monitor, completed>>

\* Mutant: the statements run without a transaction; a failure leaves the
\* rows deleted.
SetForecastFails_NoRollback(t) ==
  /\ task[t].op = "setForecast" /\ task[t].pc \in {"txDelete", "txInsert"}
  /\ task' = [task EXCEPT ![t] =
                [@ EXCEPT !.pc = "rejected", !.error = "StorageError",
                          !.failedAt = <<task[t].pc>>]]
  /\ forecast' = forecast \ task[t].deleted
  /\ UNCHANGED <<locations, history, clock, ticks, schema, connection, monitor, completed>>

\* The DELETE or the INSERT fails: sql.begin rolls back and rejects, and
\* setForecast logs the error and throws it again.
SetForecastFails(t) ==
  /\ task[t].op = "setForecast" /\ task[t].pc \in {"txDelete", "txInsert"}
  /\ task' = [task EXCEPT ![t] =
                [@ EXCEPT !.pc = "rejected", !.error = "StorageError",
                          !.failedAt = <<task[t].pc>>,
                          !.deleted = {}, !.written = {}]]
  /\ UNCHANGED <<locations, forecast, history, clock, ticks, schema, connection, monitor, completed>>

\* The frame of another task once a setForecast for locationId has committed.
Disturbed(g, locationId) ==
  IF g.op = "setForecast" /\ g.location.id = locationId /\ g.pc # "idle"
    THEN [g EXCEPT !.disturbed = TRUE]
  ELSE g

\* The frame when _updateForecast returns: _summarizeForecast takes maxTime,
\* 48 hours from now, zeroes its summary and opens the cursor of
\* listForecast; a direct call resolves.
UpdateForecastReturns(f) ==
  IF f.handler = "_summarizeForecast"
    THEN [f EXCEPT !.pc = "summaryOpen", !.outlookAt = clock,
                   !.summary = [rain |-> 0, snow |-> 0],
                   !.maxTime = clock + 48 * HOUR]
  ELSE [f EXCEPT !.pc = "resolved"]

\* COMMIT: the deleted rows go, the written rows show; setForecast resolves.
CommitForecast(t) ==
  LET f == task[t]
      stored == (forecast \ f.deleted) \cup f.written
  IN
  /\ f.op = "setForecast" /\ f.pc = "txCommit"
  /\ forecast' = stored
  /\ task' = [u \in DOMAIN task |->
                IF u = t
                  THEN [UpdateForecastReturns(f) EXCEPT
                          !.atCommit = {r \in stored : r.locationId = f.location.id}]
                ELSE Disturbed(task[u], f.location.id)]
  /\ UNCHANGED <<locations, history, clock, ticks, schema, connection, monitor, completed>>

\* Rows in the order of ORDER BY forecast_time ASC.
RECURSIVE SortedByTime(_)
SortedByTime(rows) ==
  IF rows = {} THEN <<>>
  ELSE LET first == CHOOSE r \in rows : \A x \in rows : r.time <= x.time
       IN <<first>> \o SortedByTime(rows \ {first})

\* listForecast: the cursor is opened; its query sees the rows committed now.
StartListForecast(t, locationId) ==
  /\ CanStart(t)
  /\ task' = [task EXCEPT ![t] =
                [NewFrame("listForecast") EXCEPT
                   !.pc = "listForecast", !.location = [id |-> locationId],
                   !.rows = SortedByTime(StoredForecast(locationId)), !.cursor = 0]]
  /\ UNCHANGED <<locations, forecast, history, clock, ticks, schema, connection, monitor, completed>>

\* The cursor answers: with its next row, or with its end.
ListForecastNext(t) ==
  LET f == task[t] IN
  /\ f.op = "listForecast" /\ f.pc = "listForecast"
  /\ task' = [task EXCEPT ![t] =
       IF f.cursor < Len(f.rows)
         THEN [f EXCEPT !.cursor = f.cursor + 1,
                        !.seen = Append(@, f.rows[f.cursor + 1])]
       ELSE [f EXCEPT !.pc = "resolved"]]
  /\ UNCHANGED <<locations, forecast, history, clock, ticks, schema, connection, monitor, completed>>

\* Writers and readers of Seattle's forecast, concurrently.
NextForecast ==
  \/ \E t \in Sessions, b \in Batches : StartSetForecast(t, Seattle.id, b)
  \/ \E t \in Sessions : DeleteForecastReturns(t)
  \/ \E t \in Sessions : InsertForecastReturns(t)
  \/ \E t \in Sessions : SetForecastFails(t)
  \/ \E t \in Sessions : CommitForecast(t)
  \/ \E t \in Sessions : StartListForecast(t, Seattle.id)
  \/ \E t \in Sessions : ListForecastNext(t)

SpecForecast == InitForecast /\ [][NextForecast]_vars

---------------------------------------------------------------------------
(* BeckyBotSocket._updateForecast(location), called again and again by one *)
(* session.                                                                *)

TWO_HOURS == 2 * HOUR

\* Mutant: a forecast is fresh for one hour.
Fresh_OneHour(location) ==
  /\ IsNum(location.oldestForecastTime)
  /\ location.oldestForecastTime.value > clock - HOUR

\* location?.oldestForecastTime > dayjs().subtract(2, 'hours').unix()
Fresh(location) ==
  /\ IsNum(location.oldestForecastTime)
  /\ location.oldestForecastTime.value > clock - TWO_HOURS

\* What getForecast answers: a response without hourly, or the hours from
\* the current hour on.
ForecastResponses ==
  {[hourly |-> Undefined],
   [hourly |-> Hourly(hourStart, ForecastHours, Num(1))]}

\* _updateForecast is called with the location as the store holds it now:
\* it returns at once when the forecast is fresh, else it calls getForecast.
StartUpdateForecast(t, l) ==
  LET f == task[t]
      location == selectLocationQuery(l)
      g == [NewFrame("_updateForecast") EXCEPT
              !.handler = "_updateForecast", !.location = location,
              !.calls = f.calls,
              !.refreshes =
                 Append(f.refreshes,
                        [at |-> clock, oldest |-> location.oldestForecastTime,
                         skipped |-> Fresh(location),
                         afterStore |-> f.pc = "resolved" /\ f.atCommit # {}])]
  IN
  /\ \/ CanStart(t)
     \/ f.handler = "_updateForecast" /\ f.pc \in {"resolved", "rejected"}
  /\ Len(f.refreshes) < MaxRefreshes
  /\ task' = [task EXCEPT ![t] =
       IF Fresh(location) THEN UpdateForecastReturns(g)
       ELSE [g EXCEPT !.pc = "getForecast",
                      !.calls = Append(@, [lat |-> location.lat, lon |-> location.lon,
                                           dt |-> Undefined])]]
  /\ UNCHANGED <<locations, forecast, history, clock, ticks, schema, connection, monitor, completed>>

\* getForecast resolves: with hourly, setForecast is called and awaited;
\* without, _updateForecast returns.
GetForecastReturns(t, response) ==
  LET f == task[t] IN
  /\ f.pc = "getForecast"
  /\ task' = [task EXCEPT ![t] =
       IF response.hourly = Undefined THEN UpdateForecastReturns(f)
       ELSE [f EXCEPT !.op = "setForecast", !.pc = "txDelete",
                      !.hourly = response.hourly,
                      !.snapshot = StoredForecast(f.location.id),
                      !.before = StoredForecast(f.location.id)]]
  /\ UNCHANGED <<locations, forecast, history, clock, ticks, schema, connection, monitor, completed>>

\* getForecast rejects, and _updateForecast with it.
GetForecastFails(t) ==
  /\ task[t].pc = "getForecast"
  /\ task' = [task EXCEPT ![t] =
                [@ EXCEPT !.pc = "rejected", !.error = "ProviderError"]]
  /\ UNCHANGED <<locations, forecast, history, clock, ticks, schema, connection, monitor, completed>>

\* Half an hour passes.
HalfHourPasses ==
  /\ ticks < MaxHalfHours
  /\ clock' = clock + HOUR \div 2
  /\ ticks' = ticks + 1
  /\ UNCHANGED <<locations, forecast, history, task, completed,
                 schema, connection, monitor>>

NextRefresh ==
  \/ StartUpdateForecast("t1", Seattle)
  \/ \E response \in ForecastResponses : GetForecastReturns("t1", response)
  \/ GetForecastFails("t1")
  \/ DeleteForecastReturns("t1")
  \/ InsertForecastReturns("t1")
  \/ SetForecastFails("t1")
  \/ CommitForecast("t1")
  \/ HalfHourPasses

SpecRefresh == InitForecast /\ [][NextRefresh]_vars

---------------------------------------------------------------------------
(* BeckyBotSocket._summarizeForecast(loc).                                  *)

\* A stored forecast hour with its rain and snow.
Expected(locationId, time, rain, snow) ==
  [locationId |-> locationId, time |-> time, rain |-> rain, snow |-> snow]

\* What Seattle's forecast may hold at the start: nothing; or hours from the
\* last hour to 47, 48, 49 and 50 hours from now.
InitialOutlooks ==
  {{},
   {Expected(Seattle.id, T0 - HOUR, 1, 32), Expected(Seattle.id, T0 + 47 * HOUR, 2, 64),
    Expected(Seattle.id, T0 + 48 * HOUR, 4, 128), Expected(Seattle.id, T0 + 49 * HOUR, 8, 256),
    Expected(Seattle.id, T0 + 50 * HOUR, 16, 512)}}

InitOutlook ==
  /\ locations = <<Seattle, Portland>>
  /\ history = {}
  /\ forecast \in {rows \cup {Expected(Portland.id, T0, 1024, 2048)} :
                      rows \in InitialOutlooks}
  /\ clock = T0
  /\ ticks = 0
  /\ Serving
  /\ task = [t \in Tasks |-> IdleFrame]
  /\ completed = {}

\* _summarizeForecast is called with the location as the store holds it
\* now: it calls _updateForecast(loc) first.
StartSummarizeForecast(t, l) ==
  LET location == selectLocationQuery(l)
      g == [NewFrame("_updateForecast") EXCEPT
              !.handler = "_summarizeForecast", !.location = location,
              !.refreshes =
                 <<[at |-> clock, oldest |-> location.oldestForecastTime,
                    skipped |-> Fresh(location), afterStore |-> FALSE]>>]
  IN
  /\ CanStart(t)
  /\ task' = [task EXCEPT ![t] =
       IF Fresh(location) THEN UpdateForecastReturns(g)
       ELSE [g EXCEPT !.pc = "getForecast",
                      !.calls = Append(@, [lat |-> location.lat, lon |-> location.lon,
                                           dt |-> Undefined])]]
  /\ UNCHANGED <<locations, forecast, history, clock, ticks, schema, connection, monitor, completed>>

\* The query of the cursor of listForecast runs: it sees the rows stored now.
ForecastScanOpens(t) ==
  LET f == task[t] IN
  /\ f.pc = "summaryOpen"
  /\ task' = [task EXCEPT ![t] =
                [f EXCEPT !.pc = "summaryScan", !.cursor = 0,
                          !.rows = SortedByTime(StoredForecast(f.location.id))]]
  /\ UNCHANGED <<locations, forecast, history, clock, ticks, schema, connection, monitor, completed>>

\* Mutant: the hour at maxTime is skipped too.
Later_Inclusive(time, maxTime) == time >= maxTime

\* hour.time > maxTime
Later(time, maxTime) == time > maxTime

\* Mutant: the candidate is kept for one answer at the end of the scan.
SummarizeForecastReturns_Batched(f) ==
  IF f.endpoint = "whereToGo"
    THEN [f EXCEPT !.pc = "within",
                   !.trail = Append(@, [id |-> f.location.id, verdict |-> "emitted",
                                        at |-> f.scanAt,
                                        emitted |-> Len(f.events) + 1])]
  ELSE [f EXCEPT !.pc = "resolved",
                 !.response = [kind |-> "summary", summary |-> f.summary]]

\* The frame when _summarizeForecast returns its summary: _whereToGo emits
\* the candidate with its history totals and the summary, and awaits the
\* next row of its cursor; a direct call resolves.
SummarizeForecastReturns(f) ==
  IF f.endpoint = "whereToGo"
    THEN [f EXCEPT !.pc = "within",
                   !.events = Append(@, [f.response EXCEPT !.forecast = f.summary]),
                   !.trail = Append(@, [id |-> f.location.id, verdict |-> "emitted",
                                        at |-> f.scanAt,
                                        emitted |-> Len(f.events) + 1])]
  ELSE [f EXCEPT !.pc = "resolved",
                 !.response = [kind |-> "summary", summary |-> f.summary]]

\* The cursor answers: with its next row, which is added to the summary
\* unless it is later than maxTime, or with its end, and the summary is
\* returned.
ForecastScanNext(t) ==
  LET f == task[t] IN
  /\ f.pc = "summaryScan"
  /\ task' = [task EXCEPT ![t] =
       IF f.cursor < Len(f.rows)
         THEN LET hour == f.rows[f.cursor + 1] IN
              [f EXCEPT !.cursor = f.cursor + 1,
                        !.summary =
                           IF Later(hour.time, f.maxTime) THEN f.summary
                           ELSE [rain |-> f.summary.rain + hour.rain,
                                 snow |-> f.summary.snow + hour.snow]]
       ELSE SummarizeForecastReturns(f)]
  /\ UNCHANGED <<locations, forecast, history, clock, ticks, schema, connection, monitor, completed>>

NextOutlook ==
  \/ StartSummarizeForecast("t1", Seattle)
  \/ \E response \in ForecastResponses : GetForecastReturns("t1", response)
  \/ GetForecastFails("t1")
  \/ DeleteForecastReturns("t1")
  \/ InsertForecastReturns("t1")
  \/ SetForecastFails("t1")
  \/ CommitForecast("t1")
  \/ ForecastScanOpens("t1")
  \/ ForecastScanNext("t1")
  \/ HalfHourPasses

SpecOutlook == InitOutlook /\ [][NextOutlook]_vars

---------------------------------------------------------------------------
(* Every writer of the store, two at a time: updateHistory, backfillHistory *)
(* and setForecast, the provider reporting dry and rainy hours.             *)

\* The observations getHistorical answers with.
Observations == {Dry, [rain |-> Num(5), snow |-> Undefined]}

\* The end times updateHistory is called with: one and two hours to fetch.
StoreEndTimes == {Num(T0 + HOUR), Num(T0 + 2 * HOUR)}

InitStore ==
  /\ Init
  /\ locations = <<Seattle, Portland>>
  /\ HistoryTimes(Seattle.id) = Hours(3, 1)
  /\ HistoryTimes(Portland.id) = Hours(12, 10)

NextStore ==
  \/ \E t \in Tasks, e \in StoreEndTimes :
       FirstCaller(t) /\ StartUpdateHistory(t, Seattle, e)
  \/ \E t \in Tasks, limit \in Limits :
       FirstCaller(t) /\ StartBackfillHistory(t, limit)
  \/ \E t \in Tasks, b \in Batches :
       FirstCaller(t) /\ StartSetForecast(t, Seattle.id, b)
  \/ \E t \in Tasks, w \in Observations : GetHistoricalResponds(t, w)
  \/ \E t \in Tasks : GetHistoricalFails(t)
  \/ \E t \in Tasks : InsertWeatherHistoryReturns(t)
  \/ \E t \in Tasks : InsertWeatherHistoryFails(t)
  \/ \E t \in Tasks : BackfillNextLocation(t)
  \/ \E t \in Tasks : GetOldestForecastReturns(t)
  \/ \E t \in Tasks : QueryFails(t)
  \/ \E t \in Tasks : DeleteForecastReturns(t)
  \/ \E t \in Tasks : InsertForecastReturns(t)
  \/ \E t \in Tasks : SetForecastFails(t)
  \/ \E t \in Tasks : CommitForecast(t)

SpecStore == InitStore /\ [][NextStore]_vars

---------------------------------------------------------------------------
(* Database.insertLocation, Database.getLocation and                        *)
(* BeckyBotSocket._addLocation.  Coordinates are in thousandths of a degree.*)

\* Number.prototype.toFixed(2): the sign, the nearest hundredth (a tie goes
\* away from zero), two decimals.
toFixed2(x) ==
  LET m == IF x < 0 THEN -x ELSE x
      n == (m + 5) \div 10
      cents == n % 100
  IN (IF x < 0 THEN "-" ELSE "") \o ToString(n \div 100) \o "."
       \o (IF cents < 10 THEN "0" ELSE "") \o ToString(cents)

\* `${lat.toFixed(2)},${lon.toFixed(2)}`
_toId(lat, lon) == toFixed2(lat) \o "," \o toFixed2(lon)

CONFLICT == 409
INTERNAL == 500

\* The addLocation requests: Seattle's name or a new one, with Seattle's
\* coordinates, with coordinates that differ from them in the third decimal,
\* or with Tacoma's.
Requests ==
  {[name |-> n, lat |-> c[1], lon |-> c[2]] :
     n \in {"Seattle", "Tacoma"},
     c \in {<<47606, -122332>>, <<47610, -122330>>, <<47253, -122444>>}}

\* The texts getLocation is called with.
Keys ==
  {"Seattle", "Portland", "Tacoma", "Nowhere",
   "47.61,-122.33", "45.52,-122.68", "47.25,-122.44", "1.00,2.00"}

\* /^-?\d+\.\d\d,-?\d+\.\d\d$/.test(idOrName), on the texts of the
\* model: those that _toId produces.
isId(idOrName) ==
  idOrName \in {_toId(lat, lon) : lat \in {1000, 45515, 47253, 47606},
                                   lon \in {2000, -122678, -122444, -122332}}

\* Mutant: only the name is unique.
LocationConflict_NameOnly(location) ==
  \E k \in DOMAIN locations : locations[k].name = location.name

\* Mutant: the name and the (lat, lon) pair are unique, the id is not a key.
LocationConflict_NoKey(location) ==
  \E k \in DOMAIN locations :
    \/ locations[k].name = location.name
    \/ locations[k].lat = location.lat /\ locations[k].lon = location.lon

\* The constraints of table locations that a new row would violate:
\* location_id PRIMARY KEY, name UNIQUE, UNIQUE (lat, lon).
LocationConflict(location) ==
  \E k \in DOMAIN locations :
    \/ locations[k].id = _toId(location.lat, location.lon)
    \/ locations[k].name = location.name
    \/ locations[k].lat = location.lat /\ locations[k].lon = location.lon

\* The row that insertLocation builds.
LocationRow(location) ==
  [id |-> _toId(location.lat, location.lon), name |-> location.name,
   lat |-> location.lat, lon |-> location.lon]

\* Database.getLocation: the first row whose id (for a text of id form) or
\* name is the text, with its derived times; results[0] is undefined when no
\* row matches.
getLocation(idOrName) ==
  LET matches == {k \in DOMAIN locations :
                    (IF isId(idOrName) THEN locations[k].id ELSE locations[k].name)
                      = idOrName}
  IN IF matches = {} THEN Undefined
     ELSE selectLocationQuery(locations[SetMin(matches)])

InitLocations ==
  /\ locations \in {<<Portland>>, <<Portland, Seattle>>}
  /\ history = {HistoryRow(Portland.id, h, Dry) : h \in Hours(3, 1)}
  /\ forecast = ForecastRows(Portland.id, Hourly(T0, 2, Num(1)))
  /\ clock = T0
  /\ ticks = 0
  /\ Serving
  /\ task = [t \in Tasks |-> IdleFrame]
  /\ completed = {}

\* A session asks to add a location: insertLocation is called and awaited.
StartAddLocation(t, req) ==
  /\ CanStart(t)
  /\ task' = [task EXCEPT ![t] =
                [NewFrame("_addLocation") EXCEPT
                   !.handler = "_addLocation", !.pc = "insertLocation", !.req = req]]
  /\ UNCHANGED <<locations, forecast, history, clock, ticks, schema, connection, monitor, completed>>

\* The INSERT of insertLocation completes: the row is stored and the request
\* acknowledged, or a constraint is violated, which _addLocation logs before
\* it asks for the location of the request's name.
InsertLocationReturns(t) ==
  LET f == task[t] IN
  /\ f.pc = "insertLocation"
  /\ IF LocationConflict(f.req)
       THEN /\ task' = [task EXCEPT ![t] =
                          [f EXCEPT !.pc = "getLocation", !.key = f.req.name,
                                    !.error = "UniqueViolation", !.stored = locations]]
            /\ UNCHANGED locations
     ELSE /\ locations' = Append(locations, LocationRow(f.req))
          /\ task' = [task EXCEPT ![t] =
                        [f EXCEPT !.pc = "resolved", !.stored = locations,
                                  !.response = [kind |-> "ack"],
                                  !.events = Append(@, [kind |-> "done"])]]
  /\ UNCHANGED <<forecast, history, clock, ticks, schema, connection, monitor, completed>>

\* The INSERT fails for another reason; _addLocation goes on the same way.
InsertLocationFails(t) ==
  LET f == task[t] IN
  /\ f.pc = "insertLocation"
  /\ task' = [task EXCEPT ![t] =
                [f EXCEPT !.pc = "getLocation", !.key = f.req.name,
                          !.error = "StorageError", !.stored = locations]]
  /\ UNCHANGED <<locations, forecast, history, clock, ticks, schema, connection, monitor, completed>>

\* getLocation is called by itself.
StartGetLocation(t, idOrName) ==
  /\ CanStart(t)
  /\ task' = [task EXCEPT ![t] =
                [NewFrame("getLocation") EXCEPT !.pc = "getLocation", !.key = idOrName]]
  /\ UNCHANGED <<locations, forecast, history, clock, ticks, schema, connection, monitor, completed>>

\* The query of getLocation completes: getLocation resolves with results[0];
\* _addLocation emits CONFLICT with it.
GetLocationReturns(t) ==
  LET f == task[t]
      loc == getLocation(f.key)
  IN
  /\ f.pc = "getLocation"
  /\ task' = [task EXCEPT ![t] =
       IF f.handler = "_addLocation"
         THEN [f EXCEPT !.pc = "resolved", !.result = loc,
                        !.response = [kind |-> "error", error |-> CONFLICT,
                                      location |-> loc],
                        !.events = Append(@, [kind |-> "error", error |-> CONFLICT,
                                              location |-> loc])]
       ELSE [f EXCEPT !.pc = "resolved", !.result = loc]]
  /\ UNCHANGED <<locations, forecast, history, clock, ticks, schema, connection, monitor, completed>>

\* The query of getLocation fails: getLocation rejects; _addLocation emits
\* INTERNAL.
GetLocationFails(t) ==
  LET f == task[t] IN
  /\ f.pc = "getLocation"
  /\ task' = [task EXCEPT ![t] =
       IF f.handler = "_addLocation"
         THEN [f EXCEPT !.pc = "resolved",
                        !.response = [kind |-> "error", error |-> INTERNAL,
                                      location |-> Undefined],
                        !.events = Append(@, [kind |-> "error", error |-> INTERNAL])]
       ELSE [f EXCEPT !.pc = "rejected", !.error = "QueryError"]]
  /\ UNCHANGED <<locations, forecast, history, clock, ticks, schema, connection, monitor, completed>>

NextLocations ==
  \/ \E t \in Tasks, req \in Requests : StartAddLocation(t, req)
  \/ \E t \in Tasks : InsertLocationReturns(t)
  \/ \E t \in Tasks : InsertLocationFails(t)
  \/ \E t \in Tasks, idOrName \in Keys : StartGetLocation(t, idOrName)
  \/ \E t \in Tasks : GetLocationReturns(t)
  \/ \E t \in Tasks : GetLocationFails(t)

SpecLocations == InitLocations /\ [][NextLocations]_vars

---------------------------------------------------------------------------
(* BeckyBotSocket._summarizeWeatherHistory(loc) and Database.listWeather.   *)

\* A stored hour with its rain and snow.
Fallen(locationId, time, rain, snow) ==
  [locationId |-> locationId, time |-> time, rain |-> rain, snow |-> snow]

\* What Seattle's history may hold at the start: the hours 12 hours, 5 days
\* and 20 days ago with rain 5, 3 and 2; or hours exactly a day, a week,
\* 4 weeks and 29 days ago; or rain only more than 4 weeks ago and snow only
\* 20 days ago; in all of them the hour before this one.
InitialRainfall ==
  {{Fallen(Seattle.id, T0 - 12 * HOUR, 5, 0), Fallen(Seattle.id, T0 - 5 * DAY, 3, 0),
    Fallen(Seattle.id, T0 - 20 * DAY, 2, 0), Fallen(Seattle.id, T0 - HOUR, 0, 0)},
   {Fallen(Seattle.id, T0 - DAY, 1, 16), Fallen(Seattle.id, T0 - WEEK, 2, 32),
    Fallen(Seattle.id, T0 - 4 * WEEK, 4, 64), Fallen(Seattle.id, T0 - 29 * DAY, 8, 128),
    Fallen(Seattle.id, T0 - HOUR, 256, 512)},
   {Fallen(Seattle.id, T0 - 29 * DAY, 7, 0), Fallen(Seattle.id, T0 - 20 * DAY, 0, 9),
    Fallen(Seattle.id, T0 - HOUR, 0, 0)}}

InitSummary ==
  /\ locations = <<Seattle, Portland>>
  /\ history \in {rows \cup {Fallen(Portland.id, T0 - 2 * HOUR, 1024, 2048)} :
                     rows \in InitialRainfall}
  /\ forecast = {}
  /\ clock = T0
  /\ ticks = 0
  /\ Serving
  /\ task = [t \in Tasks |-> IdleFrame]
  /\ completed = {}

\* _summarizeWeatherHistory is called: it calls updateHistory(loc) first.
StartSummarize(t, l) ==
  /\ CanStart(t)
  /\ LET location == selectLocationQuery(l)
         endTime == EffectiveEndTime(Undefined)
         f == [NewFrame("updateHistory") EXCEPT
                 !.handler = "_summarizeWeatherHistory",
                 !.location = location, !.endTime = endTime]
     IN /\ task' = [task EXCEPT ![t] = updateHistory(f, location, endTime)]
        /\ completed' = Completed(f, FirstTime(location, endTime))
  /\ UNCHANGED <<locations, forecast, history, clock, ticks, schema, connection, monitor>>

\* Database.listWeather: the rows of the location from oldestTime on.
listWeather(locationId, oldestTime) ==
  {r \in history : r.locationId = locationId /\ r.time >= oldestTime}

\* The query of the cursor runs: it sees the rows stored now.
ListWeatherOpens(t) ==
  LET f == task[t] IN
  /\ f.pc = "listWeather"
  /\ task' = [task EXCEPT ![t] =
                [f EXCEPT !.pc = "scan", !.cursor = 0,
                          !.rows = SortedByTime(listWeather(f.location.id, f.aMonthAgo))]]
  /\ UNCHANGED <<locations, forecast, history, clock, ticks, schema, connection, monitor, completed>>

\* Mutant: a row at the cutoff counts.
After_Inclusive(time, cutoff) == time >= cutoff

\* weather.time > aDayAgo
After(time, cutoff) == time > cutoff

\* The totals with one row added.
Accumulate(totals, amount, f, time) ==
  [day |-> totals.day + (IF After(time, f.aDayAgo) THEN amount ELSE 0),
   week |-> totals.week + (IF After(time, f.aWeekAgo) THEN amount ELSE 0),
   month |-> totals.month + (IF After(time, f.aMonthAgo) THEN amount ELSE 0)]

\* Mutant: the totals are left out when their day total is zero.
Reported_Day(totals) == IF totals.day # 0 THEN totals ELSE Undefined

\* if (rain.month) res.rain = rain
Reported(totals) == IF totals.month # 0 THEN totals ELSE Undefined

\* Mutant: 10 of rain or snow in a day, 100 of snow in a week are bad.
badWeatherHistory_Inclusive(res) ==
  \/ res.rain # Undefined /\ res.rain.day >= 10
  \/ res.snow # Undefined /\ (res.snow.day >= 10 \/ res.snow.week >= 100)

\* rain?.day > 10 || snow?.day > 10 || snow?.week > 100
badWeatherHistory(res) ==
  \/ res.rain # Undefined /\ res.rain.day > 10
  \/ res.snow # Undefined /\ (res.snow.day > 10 \/ res.snow.week > 100)

\* The frame when _summarizeWeatherHistory returns res: _listLocations emits
\* it on `<requestId>_location` and awaits its next row; _whereToGo goes to
\* the next row of its cursor when the weather was bad, else it calls
\* _summarizeForecast(loc), which calls _updateForecast(loc) with the row the
\* cursor gave; a direct call resolves.
SummarizeHistoryReturns(f, res) ==
  IF f.endpoint = "whereToGo"
    THEN IF badWeatherHistory(res)
           THEN [f EXCEPT !.pc = "within",
                          !.trail = Append(@, [id |-> f.location.id, verdict |-> "bad",
                                               at |-> f.scanAt,
                                               emitted |-> Len(f.events)])]
         ELSE LET loc == f.found[f.index]
                  g == [f EXCEPT !.handler = "_summarizeForecast", !.response = res,
                                 !.refreshes =
                                    <<[at |-> clock, oldest |-> loc.oldestForecastTime,
                                       skipped |-> Fresh(loc), afterStore |-> FALSE]>>]
              IN IF Fresh(loc) THEN UpdateForecastReturns(g)
                 ELSE [g EXCEPT !.pc = "getForecast",
                                !.calls = Append(@, [lat |-> loc.lat, lon |-> loc.lon,
                                                     dt |-> Undefined])]
  ELSE IF f.endpoint = "listLocations"
    THEN [f EXCEPT !.pc = "socketLocations", !.response = res,
                   !.events = Append(@, res)]
  ELSE [f EXCEPT !.pc = "resolved", !.response = res]

\* The cursor answers: with its next row, which is added to the totals, or
\* with its end, and the response is built: the location, and the rain and
\* snow totals whose month total is not zero.
ListWeatherNext(t) ==
  LET f == task[t] IN
  /\ f.pc = "scan"
  /\ task' = [task EXCEPT ![t] =
       IF f.cursor < Len(f.rows)
         THEN LET weather == f.rows[f.cursor + 1] IN
              [f EXCEPT !.cursor = f.cursor + 1,
                        !.rain = Accumulate(f.rain, weather.rain, f, weather.time),
                        !.snow = Accumulate(f.snow, weather.snow, f, weather.time)]
       ELSE SummarizeHistoryReturns(
              f, [kind |-> "location", location |-> f.location,
                  rain |-> Reported(f.rain), snow |-> Reported(f.snow),
                  forecast |-> Undefined])]
  /\ UNCHANGED <<locations, forecast, history, clock, ticks, schema, connection, monitor, completed>>

NextSummary ==
  \/ StartSummarize("t1", Seattle)
  \/ \E w \in Observations : GetHistoricalResponds("t1", w)
  \/ GetHistoricalFails("t1")
  \/ InsertWeatherHistoryReturns("t1")
  \/ InsertWeatherHistoryFails("t1")
  \/ ListWeatherOpens("t1")
  \/ ListWeatherNext("t1")
  \/ HalfHourPasses

SpecSummary == InitSummary /\ [][NextSummary]_vars

---------------------------------------------------------------------------
(* BeckyBotSocket._whereToGo({requestId, where}).  Coordinates are in       *)
(* thousandths of a degree, distances in millimetres.                      *)

NOT_FOUND == 404
SEARCH_RADIUS == 300000
MAX_OFFSET == 2500

\* A registered location.
Place(name, lat, lon) ==
  [id |-> _toId(lat, lon), name |-> name, lat |-> lat, lon |-> lon]

Tacoma == Place("Tacoma", 47253, -122444)
Condon == Place("Condon", 45485, -119914)
Olympia == Place("Olympia", 47038, -122900)
Neskowin == Place("Neskowin", 45201, -124096)
Pemberton == Place("Pemberton", 50206, -122332)
Snoqualmie == Place("Snoqualmie", 47424, -121413)
Merritt == Place("Merritt", 50006, -120470)
Stevens == Place("Stevens", 47746, -121089)
Baker == Place("Baker", 48777, -121813)

\* Table locations, in storage order.
Places ==
  <<Tacoma, Condon, Seattle, Olympia, Neskowin, Pemberton, Snoqualmie, Merritt,
    Portland, Stevens, Baker>>

\* What geocodeLocation may answer: no match, or one match.
Geocodes ==
  {<<>>,
   <<[name |-> "Seattle", lat |-> 47606, lon |-> -122332]>>,
   <<[name |-> "Portland", lat |-> 45515, lon |-> -122678]>>}

\* haversine(a, b) for a geocoded point a and a registered location b:
\* EARTH_RADIUS * 2 * atan2(sqrt(n), sqrt(1 - n)) with EARTH_RADIUS = 6378137
\* and n = sin^2(dlat/2) + cos(lat a) * cos(lat b) * sin^2(dlon/2), evaluated
\* in double arithmetic and cut to whole millimetres.
Millimetres ==
  <<47606, -122332>> :>
     (<<47253, -122444>> :> 40190753 @@ <<45485, -119914>> :> 300001004
      @@ <<47606, -122332>> :> 0 @@ <<47038, -122900>> :> 76387343
      @@ <<45201, -124096>> :> 299998960 @@ <<50206, -122332>> :> 289430676
      @@ <<47424, -121413>> :> 72003499 @@ <<50006, -120470>> :> 300000072
      @@ <<45515, -122678>> :> 234270080 @@ <<47746, -121089>> :> 94461081
      @@ <<48777, -121813>> :> 135925076)
  @@ <<45515, -122678>> :>
     (<<47253, -122444>> :> 194305651 @@ <<45485, -119914>> :> 215675927
      @@ <<47606, -122332>> :> 234270080 @@ <<47038, -122900>> :> 170397650
      @@ <<45201, -124096>> :> 116293388 @@ <<50206, -122332>> :> 522837104
      @@ <<47424, -121413>> :> 233586641 @@ <<50006, -120470>> :> 526469442
      @@ <<45515, -122678>> :> 0 @@ <<47746, -121089>> :> 276451607
      @@ <<48777, -121813>> :> 368975587)

haversine(a, b) == Millimetres[<<a.lat, a.lon>>][<<b.lat, b.lon>>]

\* Mutant: two metres more are allowed.
TooFar_TwoMetres(a, b) == haversine(a, b) > (SEARCH_RADIUS + 2) * 1000

\* haversine(location, loc) > SEARCH_RADIUS
TooFar(a, b) == haversine(a, b) > SEARCH_RADIUS * 1000

\* Database.listLocationsWithin: the rows of selectLocationQuery strictly
\* inside the box, in storage order.
listLocationsWithin(min, max) ==
  SelectSeq(listLocations,
            LAMBDA l : /\ l.lat > min.lat /\ l.lat < max.lat
                       /\ l.lon > min.lon /\ l.lon < max.lon)

\* One stored hour of history.
Hour(l, ago, rain, snow) == Fallen(l.id, T0 - ago, rain, snow)

\* The history at the start: every location has the last hour, but Tacoma,
\* which has 10 of rain two hours ago; Olympia 11 of rain, Snoqualmie 11 of
\* snow, Baker 10 of snow in the last hour; Stevens 101 of snow and Baker 90
\* three days ago.
WhereHistory ==
  {Hour(Seattle, HOUR, 0, 0), Hour(Portland, HOUR, 3, 0), Hour(Neskowin, HOUR, 0, 0),
   Hour(Condon, HOUR, 0, 0), Hour(Merritt, HOUR, 0, 0), Hour(Pemberton, HOUR, 0, 0),
   Hour(Tacoma, 2 * HOUR, 10, 0),
   Hour(Olympia, HOUR, 11, 0),
   Hour(Snoqualmie, HOUR, 0, 11),
   Hour(Stevens, HOUR, 0, 0), Hour(Stevens, 3 * DAY, 0, 101),
   Hour(Baker, HOUR, 0, 10), Hour(Baker, 3 * DAY, 0, 90)}

\* The forecasts at the start: Seattle's and Baker's are fresh.
WhereForecast ==
  {Expected(Seattle.id, T0 - HOUR, 1, 0), Expected(Seattle.id, T0, 2, 0),
   Expected(Baker.id, T0, 0, 4), Expected(Baker.id, T0 + 49 * HOUR, 0, 8),
   Expected(Portland.id, T0 - 3 * HOUR, 16, 0)}

InitWhere ==
  /\ locations = Places
  /\ history = WhereHistory
  /\ forecast = WhereForecast
  /\ clock = T0
  /\ ticks = 0
  /\ Serving
  /\ task = [t \in Tasks |-> IdleFrame]
  /\ completed = {}

\* Mutant: the handlers have no catch.
Emitted_NoCatch(f) == f.events

\* What the socket of the frame has emitted: when the handler's try block
\* rejects, the catch emits the Internal error.
Emitted(f) ==
  IF f.endpoint \in {"whereToGo", "listLocations"} /\ f.pc = "rejected"
    THEN Append(f.events, [kind |-> "error", error |-> INTERNAL])
  ELSE f.events

\* _whereToGo is called: it awaits geocodeLocation(where).
StartWhereToGo(t, where) ==
  /\ CanStart(t)
  /\ task' = [task EXCEPT ![t] =
                [NewFrame("_whereToGo") EXCEPT
                   !.endpoint = "whereToGo", !.handler = "_whereToGo",
                   !.where = where, !.pc = "geocodeLocation"]]
  /\ UNCHANGED <<locations, forecast, history, clock, ticks, schema, connection, monitor, completed>>

\* geocodeLocation resolves: without a first match NotFound is emitted and
\* the handler returns; else the cursor of listLocationsWithin is opened.
GeocodeReturns(t, results) ==
  LET f == task[t] IN
  /\ f.pc = "geocodeLocation"
  /\ task' = [task EXCEPT ![t] =
       IF results = <<>>
         THEN [f EXCEPT !.pc = "resolved",
                        !.events = Append(@, [kind |-> "error", error |-> NOT_FOUND])]
       ELSE [f EXCEPT !.pc = "withinOpen", !.origin = results[1]]]
  /\ UNCHANGED <<locations, forecast, history, clock, ticks, schema, connection, monitor, completed>>

\* geocodeLocation rejects.
GeocodeFails(t) ==
  /\ task[t].pc = "geocodeLocation"
  /\ task' = [task EXCEPT ![t] =
                [@ EXCEPT !.pc = "rejected", !.error = "ProviderError"]]
  /\ UNCHANGED <<locations, forecast, history, clock, ticks, schema, connection, monitor, completed>>

\* The query of the cursor runs, with the box of MAX_OFFSET around the point.
WithinOpens(t) ==
  LET f == task[t]
      min == [lat |-> f.origin.lat - MAX_OFFSET, lon |-> f.origin.lon - MAX_OFFSET]
      max == [lat |-> f.origin.lat + MAX_OFFSET, lon |-> f.origin.lon + MAX_OFFSET]
  IN
  /\ f.pc = "withinOpen"
  /\ task' = [task EXCEPT ![t] =
                [f EXCEPT !.pc = "within", !.index = 0,
                          !.found = listLocationsWithin(min, max)]]
  /\ UNCHANGED <<locations, forecast, history, clock, ticks, schema, connection, monitor, completed>>

\* The cursor answers.  With its end: the request is acknowledged.  With
\* its next row: a location too far away is skipped, and the row after it
\* awaited; for another, _summarizeWeatherHistory(loc) is called, which
\* calls updateHistory(loc).
WithinNext(t) ==
  LET f == task[t] IN
  /\ f.pc = "within"
  /\ IF f.index = Len(f.found)
       THEN /\ task' = [task EXCEPT ![t] =
                          [f EXCEPT !.pc = "resolved",
                                    !.events = Append(@, [kind |-> "done"])]]
            /\ UNCHANGED completed
     ELSE LET loc == f.found[f.index + 1]
              endTime == EffectiveEndTime(Undefined)
              g == [f EXCEPT !.index = f.index + 1]
              h == [g EXCEPT !.op = "updateHistory",
                             !.handler = "_summarizeWeatherHistory",
                             !.location = loc, !.endTime = endTime]
          IN IF TooFar(f.origin, loc)
               THEN /\ task' = [task EXCEPT ![t] =
                                  [g EXCEPT !.trail =
                                     Append(@, [id |-> loc.id, verdict |-> "far",
                                                at |-> clock,
                                                emitted |-> Len(f.events)])]]
                    /\ UNCHANGED completed
             ELSE /\ task' = [task EXCEPT ![t] = updateHistory(h, loc, endTime)]
                  /\ completed' = Completed(h, FirstTime(loc, endTime))
  /\ UNCHANGED <<locations, forecast, history, clock, ticks, schema, connection, monitor>>

\* The query of the cursor, or its next row, rejects.
WithinFails(t) ==
  /\ task[t].pc \in {"withinOpen", "within"}
  /\ task' = [task EXCEPT ![t] = [@ EXCEPT !.pc = "rejected", !.error = "QueryError"]]
  /\ UNCHANGED <<locations, forecast, history, clock, ticks, schema, connection, monitor, completed>>

NextWhere ==
  \/ \E where \in {"Seattle", "Atlantis"} : StartWhereToGo("t1", where)
  \/ \E results \in Geocodes : GeocodeReturns("t1", results)
  \/ GeocodeFails("t1")
  \/ WithinOpens("t1")
  \/ WithinNext("t1")
  \/ WithinFails("t1")
  \/ \E w \in Observations : GetHistoricalResponds("t1", w)
  \/ GetHistoricalFails("t1")
  \/ InsertWeatherHistoryReturns("t1")
  \/ InsertWeatherHistoryFails("t1")
  \/ ListWeatherOpens("t1")
  \/ ListWeatherNext("t1")
  \/ \E response \in ForecastResponses : GetForecastReturns("t1", response)
  \/ GetForecastFails("t1")
  \/ DeleteForecastReturns("t1")
  \/ InsertForecastReturns("t1")
  \/ SetForecastFails("t1")
  \/ CommitForecast("t1")
  \/ ForecastScanOpens("t1")
  \/ ForecastScanNext("t1")

SpecWhere == InitWhere /\ [][NextWhere]_vars

---------------------------------------------------------------------------
(* BeckyBotSocket._listLocations(req), and the three requests of a socket. *)

\* _listLocations is called: the cursor of listLocations is opened and its
\* first row awaited.
StartListLocations(t) ==
  /\ CanStart(t)
  /\ task' = [task EXCEPT ![t] =
                [NewFrame("_listLocations") EXCEPT
                   !.endpoint = "listLocations", !.handler = "_listLocations",
                   !.pc = "socketLocations", !.found = listLocations, !.index = 0]]
  /\ UNCHANGED <<locations, forecast, history, clock, ticks, schema, connection, monitor, completed>>

\* The cursor answers: with its end, and the request is acknowledged, or
\* with its next row, for which _summarizeWeatherHistory(loc) is called.
ListLocationsNext(t) ==
  LET f == task[t] IN
  /\ f.endpoint = "listLocations" /\ f.pc = "socketLocations"
  /\ IF f.index = Len(f.found)
       THEN /\ task' = [task EXCEPT ![t] =
                          [f EXCEPT !.pc = "resolved",
                                    !.events = Append(@, [kind |-> "done"])]]
            /\ UNCHANGED completed
     ELSE LET loc == f.found[f.index + 1]
              endTime == EffectiveEndTime(Undefined)
              h == [f EXCEPT !.index = f.index + 1, !.op = "updateHistory",
                             !.handler = "_summarizeWeatherHistory",
                             !.location = loc, !.endTime = endTime]
          IN /\ task' = [task EXCEPT ![t] = updateHistory(h, loc, endTime)]
             /\ completed' = Completed(h, FirstTime(loc, endTime))
  /\ UNCHANGED <<locations, forecast, history, clock, ticks, schema, connection, monitor>>

\* The next row of the cursor, or the query of listWeather, rejects.
ListLocationsFails(t) ==
  /\ task[t].endpoint = "listLocations"
  /\ task[t].pc \in {"socketLocations", "listWeather", "scan"}
  /\ task' = [task EXCEPT ![t] = [@ EXCEPT !.pc = "rejected", !.error = "QueryError"]]
  /\ UNCHANGED <<locations, forecast, history, clock, ticks, schema, connection, monitor, completed>>

\* A socket sends one of its three requests.
NextRequests ==
  \/ \E req \in Requests : StartAddLocation("t1", req)
  \/ InsertLocationReturns("t1")
  \/ InsertLocationFails("t1")
  \/ GetLocationReturns("t1")
  \/ GetLocationFails("t1")
  \/ StartListLocations("t1")
  \/ ListLocationsNext("t1")
  \/ ListLocationsFails("t1")
  \/ NextWhere

SpecRequests == InitWhere /\ [][NextRequests]_vars

---------------------------------------------------------------------------
(* Database.open: _initialize, _schemaVersion, _updateSchema, and the       *)
(* scripts version-1.sql and version-2.sql.  _updateSchema sends a script   *)
(* as one simple query, which the store executes statement by statement in  *)
(* one implicit transaction: an error in a statement undoes the statements  *)
(* before it.  A script waits while the script of another process runs.     *)

\* CREATE TABLE / CREATE INDEX IF NOT EXISTS object, which needs `needs`.
CreateIfNotExists(object, needs) ==
  [kind |-> "createIfNotExists", object |-> object, needs |-> needs]

\* The statements of version-1.sql and version-2.sql.
Scripts ==
  <<
    <<CreateIfNotExists("locations", {}),
      CreateIfNotExists("weather_hourly_history", {"locations"}),
      CreateIfNotExists("ordered_weather_hourly_history", {"weather_hourly_history"}),
      [kind |-> "createVersionTable"]>>,
    <<CreateIfNotExists("weather_hourly_forecast", {"locations"}),
      CreateIfNotExists("ordered_weather_hourly_forecast", {"weather_hourly_forecast"}),
      [kind |-> "setVersion", version |-> 2]>>
  >>

\* CREATE TABLE becky_schema AS SELECT 1 AS version.
ExecuteVersionTable(store) ==
  IF "becky_schema" \in store.objects
    THEN [error |-> "DuplicateTable", store |-> store]
  ELSE [error |-> "none",
        store |-> [store EXCEPT !.objects = @ \cup {"becky_schema"},
                                !.version = Num(1)]]

\* What a statement does to the store of its transaction.
Execute(statement, store) ==
  IF statement.kind = "createIfNotExists"
    THEN IF ~(statement.needs \subseteq store.objects)
           THEN [error |-> "UndefinedTable", store |-> store]
         ELSE [error |-> "none",
               store |-> [store EXCEPT !.objects = @ \cup {statement.object}]]
  ELSE IF statement.kind = "createVersionTable" THEN ExecuteVersionTable(store)
  ELSE \* UPDATE becky_schema SET version = 2 WHERE TRUE
       IF "becky_schema" \notin store.objects
         THEN [error |-> "UndefinedTable", store |-> store]
       ELSE [error |-> "none",
             store |-> [store EXCEPT !.version =
                          IF @ = Undefined THEN @ ELSE Num(statement.version)]]

\* The stores a process may find: a new database, one with version 1 and
\* data, one with version 2 and data.
InitialStores == {Store({}, Undefined), Store(Version1Objects, Num(1)), Migrated}

InitOpen ==
  /\ schema \in InitialStores
  /\ locations = IF schema.objects = {} THEN <<>> ELSE <<Seattle>>
  /\ history = IF schema.objects = {} THEN {} ELSE {Fallen(Seattle.id, T0 - HOUR, 1, 0)}
  /\ forecast = IF schema = Migrated THEN {Expected(Seattle.id, T0, 1, 0)} ELSE {}
  /\ clock = T0
  /\ ticks = 0
  /\ task = [t \in Tasks |-> IdleFrame]
  /\ completed = {}
  /\ connection = Connected
  /\ monitor = Started

\* Database.open is called: _initialize calls _schemaVersion, which asks
\* whether table becky_schema exists.
StartOpen(t) ==
  /\ CanStart(t)
  /\ task' = [task EXCEPT ![t] = [NewFrame("open") EXCEPT !.pc = "tableCheck"]]
  /\ UNCHANGED <<locations, forecast, history, clock, ticks, schema, connection, monitor, completed>>

\* Mutant: the scripts up to version 1 are pending.
Pending_One(i) == i < 1

\* i < SCHEMA_VERSION
Pending(i) == i < SCHEMA_VERSION

\* The loop of _initialize from its test on: _updateSchema(i + 1) reads the
\* file of the script, or open returns the Database.
MigrateLoop(f, i) ==
  IF Pending(i) THEN [f EXCEPT !.i = i, !.script = i + 1, !.pc = "readFile"]
  ELSE [f EXCEPT !.i = i, !.pc = "resolved"]

\* The existence query answers: without the table the version is 0 and the
\* loop starts; with it the version is selected.
TableCheckReturns(t) ==
  LET f == task[t] IN
  /\ f.pc = "tableCheck"
  /\ task' = [task EXCEPT ![t] =
       IF "becky_schema" \in schema.objects THEN [f EXCEPT !.pc = "selectVersion"]
       ELSE MigrateLoop([f EXCEPT !.schemaVersion = 0, !.recorded = Undefined], 0)]
  /\ UNCHANGED <<locations, forecast, history, clock, ticks, schema, connection, monitor, completed>>

\* SELECT version FROM becky_schema answers: results[0]?.version ?? 0.
SelectVersionReturns(t) ==
  LET f == task[t]
      version == IF schema.version = Undefined THEN 0 ELSE schema.version.value
  IN
  /\ f.pc = "selectVersion"
  /\ task' = [task EXCEPT ![t] =
       MigrateLoop([f EXCEPT !.schemaVersion = version, !.recorded = schema.version],
                   version)]
  /\ UNCHANGED <<locations, forecast, history, clock, ticks, schema, connection, monitor, completed>>

\* A query of _schemaVersion, or fs.readFile, rejects.
OpenFails(t) ==
  /\ task[t].pc \in {"tableCheck", "selectVersion", "readFile"}
  /\ task' = [task EXCEPT ![t] =
                [@ EXCEPT !.pc = "rejected", !.error = "StartupError"]]
  /\ UNCHANGED <<locations, forecast, history, clock, ticks, schema, connection, monitor, completed>>

\* The file is read and sent with sql.unsafe.
ReadFileReturns(t) ==
  /\ task[t].pc = "readFile"
  /\ task' = [task EXCEPT ![t].pc = "unsafe"]
  /\ UNCHANGED <<locations, forecast, history, clock, ticks, schema, connection, monitor, completed>>

\* The store starts to execute the script, in a transaction.
ScriptBegins(t) ==
  /\ task[t].pc = "unsafe" /\ task[t].statement = 0
  /\ schema.lock = "none"
  /\ schema' = [schema EXCEPT !.lock = t]
  /\ task' = [task EXCEPT ![t].statement = 1, ![t].staged = schema,
                           ![t].begun = schema]
  /\ UNCHANGED <<locations, forecast, history, clock, ticks, connection, monitor, completed>>

\* The store executes the next statement of the script.  An error rolls the
\* transaction back and rejects sql.unsafe, _initialize and open.  After
\* the last statement the transaction commits, and the loop goes on.
ScriptStatement(t) ==
  LET f == task[t]
      script == Scripts[f.script]
      done == Execute(script[f.statement], f.staged)
  IN
  /\ f.pc = "unsafe" /\ f.statement > 0
  /\ IF done.error # "none"
       THEN /\ schema' = [schema EXCEPT !.lock = "none"]
            /\ task' = [task EXCEPT ![t] =
                          [f EXCEPT !.pc = "rejected", !.error = done.error,
                                    !.statement = 0,
                                    !.ran = Append(@, [script |-> f.script,
                                                       from |-> f.begun,
                                                       outcome |-> done.error,
                                                       to |-> schema'])]]
     ELSE IF f.statement < Len(script)
       THEN /\ task' = [task EXCEPT ![t].statement = @ + 1, ![t].staged = done.store]
            /\ UNCHANGED schema
     ELSE /\ schema' = done.store
          /\ task' = [task EXCEPT ![t] =
                        MigrateLoop([f EXCEPT !.statement = 0,
                                              !.applied = Append(@, f.script),
                                              !.ran = Append(@, [script |-> f.script,
                                                                 from |-> f.begun,
                                                                 outcome |-> "committed",
                                                                 to |-> schema'])],
                                    f.i + 1)]
  /\ UNCHANGED <<locations, forecast, history, clock, ticks, connection, monitor, completed>>

\* Mutant: the statements are committed one by one; a failure leaves those
\* that ran.
ScriptFails_Partial(t) ==
  /\ task[t].pc = "unsafe" /\ task[t].statement > 0
  /\ schema' = task[t].staged
  /\ task' = [task EXCEPT ![t] =
                [@ EXCEPT !.pc = "rejected", !.error = "StorageError", !.statement = 0,
                          !.ran = Append(@, [script |-> task[t].script,
                                             from |-> task[t].begun,
                                             outcome |-> "StorageError",
                                             to |-> schema'])]]
  /\ UNCHANGED <<locations, forecast, history, clock, ticks, connection, monitor, completed>>

\* The script fails for another reason (the connection is lost, ...): the
\* transaction is rolled back.
ScriptFails(t) ==
  /\ task[t].pc = "unsafe" /\ task[t].statement > 0
  /\ schema' = [schema EXCEPT !.lock = "none"]
  /\ task' = [task EXCEPT ![t] =
                [@ EXCEPT !.pc = "rejected", !.error = "StorageError", !.statement = 0,
                          !.ran = Append(@, [script |-> task[t].script,
                                             from |-> task[t].begun,
                                             outcome |-> "StorageError",
                                             to |-> schema'])]]
  /\ UNCHANGED <<locations, forecast, history, clock, ticks, connection, monitor, completed>>

\* Two processes (the bot, the scraper) start on the same database.
NextOpen ==
  \/ \E t \in Tasks : FirstCaller(t) /\ StartOpen(t)
  \/ \E t \in Tasks : TableCheckReturns(t)
  \/ \E t \in Tasks : SelectVersionReturns(t)
  \/ \E t \in Tasks : OpenFails(t)
  \/ \E t \in Tasks : ReadFileReturns(t)
  \/ \E t \in Tasks : ScriptBegins(t)
  \/ \E t \in Tasks : ScriptStatement(t)
  \/ \E t \in Tasks : ScriptFails(t)

SpecOpen == InitOpen /\ [][NextOpen]_vars

---------------------------------------------------------------------------
(* The scraper's main function: fetchAllHistory and backfillHistory under  *)
(* Promise.all, then monitor.close() and db.close().                       *)

\* The awaits of a task that are answered by the store.
StoreAwaits == {"listLocations", "getOldestForecast", "insertWeatherHistory"}

\* The query a task awaits was sent before end() was called: the frame is
\* the one end() found, or the await is the next row of a cursor, whose query
\* was sent when the cursor was opened.
SentBeforeEnd(t) ==
  \/ task[t] = connection.atEnd[t]
  \/ task[t].pc = "listLocations"

\* sql.end({timeout}): queries sent before the call are answered until the
\* pool has closed, queries sent after it are not.
StoreUsable(t) ==
  \/ connection.state = "open"
  \/ connection.state = "ending" /\ SentBeforeEnd(t)

\* Both calls of Promise.all([...]) have run to their first await.
Launched == \A t \in Tasks : task[t].pc # "idle"

\* The scraper: one registered pair of locations with a history that ends
\* three hours ago and one that ends an hour ago; main is about to call
\* Promise.all.
InitShutdown ==
  /\ locations = <<Seattle, Portland>>
  /\ history = {HistoryRow(Seattle.id, h, Dry) : h \in Hours(4, 3)}
                 \cup {HistoryRow(Portland.id, h, Dry) : h \in Hours(2, 1)}
  /\ forecast = {}
  /\ clock = T0
  /\ ticks = 0
  /\ schema = Migrated
  /\ connection = [Connected EXCEPT !.main = "all"]
  /\ monitor = Started
  /\ task = [t \in Tasks |-> IdleFrame]
  /\ completed = {}

\* Promise.all settles: with both calls resolved, or as soon as one of them
\* has rejected; catch logs, finally ends the timer, and monitor.close() is
\* awaited.
PromiseAllSettles ==
  /\ connection.main = "all"
  /\ Launched
  /\ \/ \A t \in Tasks : task[t].pc = "resolved"
     \/ \E t \in Tasks : task[t].pc = "rejected"
  /\ connection' = [connection EXCEPT !.main = "monitorClose"]
  /\ UNCHANGED <<locations, forecast, history, clock, ticks, schema, monitor, task, completed>>

\* monitor.close() has resolved and db.close() calls sql.end: from here on
\* the pool accepts no query.
DatabaseClose ==
  /\ connection.main = "monitorClose"
  /\ connection' = [connection EXCEPT !.main = "dbClose", !.state = "ending",
                                       !.atEnd = task]
  /\ UNCHANGED <<locations, forecast, history, clock, ticks, schema, monitor, task, completed>>

\* sql.end resolves: the queries sent before it are answered, or the
\* GRACEFUL_SHUTDOWN_SECONDS have passed and the connections are destroyed.
EndResolves ==
  /\ connection.main = "dbClose"
  /\ connection.state = "ending"
  /\ connection' = [connection EXCEPT !.main = "exited", !.state = "closed"]
  /\ UNCHANGED <<locations, forecast, history, clock, ticks, schema, monitor, task, completed>>

\* A query that the pool does not answer rejects: CONNECTION_ENDED for one
\* sent after end(), CONNECTION_DESTROYED for one cut off by the timeout.
ConnectionEnded(t) ==
  /\ task[t].pc \in StoreAwaits
  /\ ~StoreUsable(t)
  /\ task' = [task EXCEPT ![t] =
       Rejected(@, IF SentBeforeEnd(t) THEN "CONNECTION_DESTROYED"
                   ELSE "CONNECTION_ENDED")]
  /\ UNCHANGED <<locations, forecast, history, clock, ticks, schema, connection, monitor, completed>>

NextShutdown ==
  \/ StartFetchAllHistory("t1")
  \/ task["t1"].pc # "idle" /\ StartBackfillHistory("t2", MaxBackfill)
  \/ \E t \in Tasks : Launched /\ StoreUsable(t) /\ FetchAllHistoryNextLocation(t)
  \/ \E t \in Tasks : Launched /\ StoreUsable(t) /\ BackfillNextLocation(t)
  \/ \E t \in Tasks : Launched /\ StoreUsable(t) /\ GetOldestForecastReturns(t)
  \/ \E t \in Tasks : Launched /\ StoreUsable(t) /\ QueryFails(t)
  \/ \E t \in Tasks : Launched /\ GetHistoricalReturns(t)
  \/ \E t \in Tasks : Launched /\ GetHistoricalFails(t)
  \/ \E t \in Tasks : Launched /\ StoreUsable(t) /\ InsertWeatherHistoryReturns(t)
  \/ \E t \in Tasks : Launched /\ StoreUsable(t) /\ InsertWeatherHistoryFails(t)
  \/ \E t \in Tasks : ConnectionEnded(t)
  \/ PromiseAllSettles
  \/ DatabaseClose
  \/ EndResolves

SpecShutdown == InitShutdown /\ [][NextShutdown]_vars

---------------------------------------------------------------------------
(* The loader's three operations, one after another, called a quarter past *)
(* the hour.                                                               *)

\* Seattle's history ends three hours ago; Portland's ends before the
\* 48-hour window or an hour ago.
InitLoader ==
  /\ locations = <<Seattle, Portland>>
  /\ history \in
       {{HistoryRow(Seattle.id, h, Dry) : h \in Hours(4, 3)}
          \cup {HistoryRow(Portland.id, h, Dry) : h \in hours} :
        hours \in {Hours(52, 51), Hours(2, 1)}}
  /\ forecast = {}
  /\ clock = T0 + HOUR \div 4
  /\ ticks = 0
  /\ Serving
  /\ task = [t \in Tasks |-> IdleFrame]
  /\ completed = {}

\* The second operation is called when the first has settled.
Turn(t) == t = "t1" \/ task["t1"].pc \in {"resolved", "rejected"}

NextLoader ==
  \/ \E t \in Tasks, l \in Registered :
       Turn(t) /\ StartUpdateHistory(t, l, Undefined)
  \/ \E t \in Tasks : Turn(t) /\ StartFetchAllHistory(t)
  \/ \E t \in Tasks : Turn(t) /\ StartBackfillHistory(t, MaxBackfill)
  \/ \E t \in Tasks : FetchAllHistoryNextLocation(t)
  \/ \E t \in Tasks : BackfillNextLocation(t)
  \/ \E t \in Tasks : GetOldestForecastReturns(t)
  \/ \E t \in Tasks : QueryFails(t)
  \/ \E t \in Tasks : GetHistoricalReturns(t)
  \/ \E t \in Tasks : GetHistoricalFails(t)
  \/ \E t \in Tasks : InsertWeatherHistoryReturns(t)
  \/ \E t \in Tasks : InsertWeatherHistoryFails(t)
  \/ Tick

SpecLoader == InitLoader /\ [][NextLoader]_vars

---------------------------------------------------------------------------
(* The scraper's two calls under Promise.all, on any of the stores.        *)

\* Each location has no history, one that ends before the 48-hour window, or
\* one that ends an hour ago.
InitScraper ==
  /\ Init
  /\ locations = <<Seattle, Portland>>
  /\ \A id \in LocationIds :
       HistoryTimes(id) \in {{}, Hours(52, 51), Hours(3, 1)}

NextScraper ==
  \/ StartFetchAllHistory("t1")
  \/ \E limit \in Limits :
       task["t1"].pc # "idle" /\ StartBackfillHistory("t2", limit)
  \/ \E t \in Tasks : Launched /\ FetchAllHistoryNextLocation(t)
  \/ \E t \in Tasks : Launched /\ BackfillNextLocation(t)
  \/ \E t \in Tasks : Launched /\ GetOldestForecastReturns(t)
  \/ \E t \in Tasks : Launched /\ QueryFails(t)
  \/ \E t \in Tasks : Launched /\ GetHistoricalReturns(t)
  \/ \E t \in Tasks : Launched /\ GetHistoricalFails(t)
  \/ \E t \in Tasks : Launched /\ InsertWeatherHistoryReturns(t)
  \/ \E t \in Tasks : Launched /\ InsertWeatherHistoryFails(t)

SpecScraper == InitScraper /\ [][NextScraper]_vars

---------------------------------------------------------------------------
(* The Monitor: its metrics server, the requests it answers, close().      *)

MaxRequests == 3  \* requests the metrics server receives in a behaviour

Urls == {"/metrics", "/"}

Received == monitor.scraping + monitor.served + monitor.notFound

InitMonitor ==
  /\ locations = <<Seattle, Portland>>
  /\ history = {}
  /\ forecast = {}
  /\ clock = T0
  /\ ticks = 0
  /\ Serving
  /\ task = [t \in Tasks |-> IdleFrame]
  /\ completed = {}

\* _closeNow: _listeningProm has resolved, so server.close(cb) is called
\* before any other event is handled. A server that listens stops accepting;
\* on one that does not, cb will be given ERR_SERVER_NOT_RUNNING.
closeNow == IF monitor.server = "listening" THEN "serverClose" ELSE "notRunning"

\* Mutant: close() shuts down at once whatever force is.
Forced_Always(force) == TRUE

\* if (force) return await this._closeNow();
Forced(force) == force

\* close(force): with force, _closeNow; without, the first call creates
\* _closeProm and registers the listener of 'metricsSent', and every call
\* awaits _closeProm.
StartClose(t, force) ==
  LET f == [NewFrame("close") EXCEPT !.force = force, !.atCall = monitor] IN
  /\ CanStart(t)
  /\ IF Forced(force)
       THEN /\ task' = [task EXCEPT ![t] = [f EXCEPT !.pc = closeNow]]
            /\ monitor' = [monitor EXCEPT !.server = "closed"]
     ELSE /\ task' = [task EXCEPT ![t] = [f EXCEPT !.pc = "closeProm"]]
          /\ monitor' = IF monitor.closeProm = "unset"
                          THEN [monitor EXCEPT !.closeProm = "pending",
                                               !.listeners = 1]
                        ELSE monitor
  /\ UNCHANGED <<locations, forecast, history, clock, ticks, schema, connection, completed>>

\* The server receives a request: one for /metrics awaits register.metrics()
\* and the end of its response, any other is answered 404 at once.
RequestArrives(url) ==
  /\ monitor.server = "listening"
  /\ Received < MaxRequests
  /\ monitor' = IF url = "/metrics"
                  THEN [monitor EXCEPT !.scraping = @ + 1]
                ELSE [monitor EXCEPT !.notFound = @ + 1]
  /\ UNCHANGED <<locations, forecast, history, clock, ticks, schema, connection, task, completed>>

\* The response of a scrape has ended: emit('metricsSent'). The listener of
\* close(), registered with once, is removed and runs _closeNow.
MetricsSent ==
  /\ monitor.scraping > 0
  /\ monitor' =
       IF monitor.listeners = 1
         THEN [monitor EXCEPT !.scraping = @ - 1, !.served = @ + 1,
                              !.listeners = 0, !.listener = closeNow,
                              !.server = "closed"]
       ELSE [monitor EXCEPT !.scraping = @ - 1, !.served = @ + 1]
  /\ UNCHANGED <<locations, forecast, history, clock, ticks, schema, connection, task, completed>>

\* The callback of server.close in the listener: with the connections ended
\* the server has closed and _closeProm resolves; with
\* ERR_SERVER_NOT_RUNNING the listener's promise rejects, which nothing
\* handles, and _closeProm stays pending.
ListenerCloseReturns ==
  /\ monitor.listener \in {"serverClose", "notRunning"}
  /\ monitor.scraping = 0
  /\ monitor' = IF monitor.listener = "serverClose"
                  THEN [monitor EXCEPT !.listener = "resolved",
                                       !.closeProm = "resolved"]
                ELSE [monitor EXCEPT !.listener = "rejected"]
  /\ UNCHANGED <<locations, forecast, history, clock, ticks, schema, connection, task, completed>>

\* The callback of server.close in close(true).
ServerCloseReturns(t) ==
  /\ task[t].pc \in {"serverClose", "notRunning"}
  /\ monitor.scraping = 0
  /\ task' = [task EXCEPT ![t] =
       IF @.pc = "serverClose" THEN [@ EXCEPT !.pc = "resolved"]
       ELSE [@ EXCEPT !.pc = "rejected", !.error = "ERR_SERVER_NOT_RUNNING"]]
  /\ UNCHANGED <<locations, forecast, history, clock, ticks, schema, connection, monitor, completed>>

\* await this._closeProm, resolved.
CloseReturns(t) ==
  /\ task[t].pc = "closeProm"
  /\ monitor.closeProm = "resolved"
  /\ task' = [task EXCEPT ![t].pc = "resolved"]
  /\ UNCHANGED <<locations, forecast, history, clock, ticks, schema, connection, monitor, completed>>

NextMonitor ==
  \/ \E t \in Tasks, force \in BOOLEAN : StartClose(t, force)
  \/ \E url \in Urls : RequestArrives(url)
  \/ MetricsSent
  \/ ListenerCloseReturns
  \/ \E t \in Tasks : ServerCloseReturns(t)
  \/ \E t \in Tasks : CloseReturns(t)

\* Responses end, the connections of a closing server end, and an await of
\* a resolved promise continues.
FairMonitor ==
  /\ WF_vars(MetricsSent)
  /\ WF_vars(ListenerCloseReturns)
  /\ \A t \in Tasks : WF_vars(ServerCloseReturns(t)) /\ WF_vars(CloseReturns(t))

SpecMonitor == InitMonitor /\ [][NextMonitor]_vars /\ FairMonitor

---------------------------------------------------------------------------
(* time(metric, func): timeHistogram and timeGauge.                        *)

Metrics == {"Histogram", "Gauge"}

\* What func does: return a value, throw, or return a promise that will
\* resolve with a value or reject with an error.
Funcs ==
  [kind : {"returns", "throws", "resolves", "rejects"}, value : {"v1", "v2"}]

\* res instanceof Promise
IsPromise(func) == func.kind \in {"resolves", "rejects"}

\* Mutant: record is not set to null when it is handed to res.finally.
RecordInFinally_Always(func) == TRUE

\* finally { if (record) record(); }: record is still set unless func
\* returned a promise.
RecordInFinally(func) == ~IsPromise(func)

\* time(metric, func) runs to its return: func is called; its promise gets
\* record (endTimer) as its finally handler; the finally block records
\* otherwise; the value, the exception or the new promise goes to the caller.
StartTime(t, metric, func) ==
  /\ CanStart(t)
  /\ task' = [task EXCEPT ![t] =
       [NewFrame("time") EXCEPT
          !.metric = metric, !.func = func,
          !.observed = IF RecordInFinally(func) THEN 1 ELSE 0,
          !.pc = CASE func.kind = "returns" -> "returned"
                   [] func.kind = "throws" -> "thrown"
                   [] OTHER -> "pending",
          !.passed = IF IsPromise(func) THEN [kind |-> "promise", value |-> "none"]
                     ELSE func]]
  /\ UNCHANGED <<locations, forecast, history, clock, ticks, schema, connection, monitor, completed>>

\* The promise of func settles: the finally handler records, and the promise
\* time returned settles the same way.
TimedPromiseSettles(t) ==
  /\ task[t].op = "time" /\ task[t].pc = "pending"
  /\ task' = [task EXCEPT ![t] =
       [@ EXCEPT !.observed = @ + 1,
                 !.pc = IF task[t].func.kind = "resolves" THEN "resolved"
                        ELSE "rejected",
                 !.passed = task[t].func]]
  /\ UNCHANGED <<locations, forecast, history, clock, ticks, schema, connection, monitor, completed>>

NextTimed ==
  \/ \E t \in Tasks, metric \in Metrics, func \in Funcs : StartTime(t, metric, func)
  \/ \E t \in Tasks : TimedPromiseSettles(t)

SpecTimed == InitMonitor /\ [][NextTimed]_vars

---------------------------------------------------------------------------
(* EachRowIterator of migrate_sqlite_to_psql.mts.  The frame of op "each"  *)
(* holds one iterator and its consumer, a for await loop: promises are the *)
(* inverted promises in creation order, nextPromises and eachPromises the  *)
(* two queues of indices into it, driver the state of db.each, pc the      *)
(* consumer's position, produced the callbacks the driver has made and     *)
(* received the results the consumer has been given.  At pc "ready" the    *)
(* loop is in its body, which awaits an insert into Postgres, or about to  *)
(* call next().                                                            *)

RowValues == {"a", "b"}

PendingPromise == [kind |-> "pending"]
RowResult(row) == [kind |-> "row", value |-> row]  \* {value: row, done: false}
DoneResult == [kind |-> "done"]                    \* {value: null, done: true}
Rejection == [kind |-> "error"]

addPromise_Skipped(f) == f

addPromise(f) ==
  LET prom == Len(f.promises) + 1 IN
  [f EXCEPT !.promises = Append(@, PendingPromise),
            !.nextPromises = Append(@, prom),
            !.eachPromises = Append(@, prom)]

\* this._eachPromises.shift().resolve(result) or .reject(err); shift() of an
\* empty queue gives undefined, and the callback throws.
settleEach(f, result) ==
  IF f.eachPromises = <<>> THEN [f EXCEPT !.driver = "threw"]
  ELSE [f EXCEPT !.eachPromises = Tail(@),
                 !.promises[Head(f.eachPromises)] = result]

RowsProduced(f) == Cardinality({i \in DOMAIN f.produced : f.produced[i].kind = "row"})

\* next(): this._nextPromises.shift().promise, which throws a TypeError when
\* the queue is empty.
next(f) ==
  IF f.nextPromises = <<>> THEN [f EXCEPT !.pc = "threw"]
  ELSE [f EXCEPT !.held = Head(f.nextPromises),
                 !.nextPromises = Tail(@),
                 !.pc = "awaiting"]

\* The for await loop begins: new EachRowIterator(db, query, params) and,
\* before any callback of the driver can run, the first call of next().
StartEach(t) ==
  /\ CanStart(t)
  /\ task' = [task EXCEPT ![t] =
       next([addPromise(NewFrame("each")) EXCEPT !.driver = "running"])]
  /\ UNCHANGED <<locations, forecast, history, clock, ticks, schema, connection, monitor, completed>>

\* The driver calls _each(null, row).
EachRow(t, row) ==
  /\ task[t].op = "each" /\ task[t].driver = "running"
  /\ RowsProduced(task[t]) < MaxRows
  /\ task' = [task EXCEPT ![t] =
       [settleEach(addPromise(@), RowResult(row)) EXCEPT
          !.produced = Append(@, RowResult(row))]]
  /\ UNCHANGED <<locations, forecast, history, clock, ticks, schema, connection, monitor, completed>>

\* The driver calls _each(err).
EachError(t) ==
  /\ task[t].op = "each" /\ task[t].driver = "running"
  /\ task' = [task EXCEPT ![t] =
       [settleEach(addPromise(@), Rejection) EXCEPT
          !.produced = Append(@, Rejection),
          !.driver = IF @ = "threw" THEN @ ELSE "failed"]]
  /\ UNCHANGED <<locations, forecast, history, clock, ticks, schema, connection, monitor, completed>>

\* The driver calls _end(err): the completion callback of db.each, after the
\* last row or after an error.
End(t, err) ==
  /\ task[t].op = "each" /\ task[t].driver \in {"running", "failed"}
  /\ LET result == IF err THEN Rejection ELSE DoneResult IN
     task' = [task EXCEPT ![t] =
       [settleEach(@, result) EXCEPT
          !.produced = Append(@, result),
          !.driver = IF @ = "threw" THEN @ ELSE "ended"]]
  /\ UNCHANGED <<locations, forecast, history, clock, ticks, schema, connection, monitor, completed>>

\* The body of the loop has run and the loop calls next().
IteratorNext(t) ==
  /\ task[t].op = "each" /\ task[t].pc = "ready"
  /\ task' = [task EXCEPT ![t] = next(@)]
  /\ UNCHANGED <<locations, forecast, history, clock, ticks, schema, connection, monitor, completed>>

\* The promise the loop awaits has settled: a row runs the body and the loop
\* calls next() again, done ends the loop, a rejection is thrown from it.
IteratorResultArrives(t) ==
  /\ task[t].op = "each" /\ task[t].pc = "awaiting"
  /\ task[t].promises[task[t].held] # PendingPromise
  /\ LET result == task[t].promises[task[t].held] IN
     task' = [task EXCEPT ![t] =
       [@ EXCEPT !.received = Append(@, result),
                 !.pc = CASE result.kind = "row" -> "ready"
                          [] result.kind = "done" -> "done"
                          [] OTHER -> "rejected"]]
  /\ UNCHANGED <<locations, forecast, history, clock, ticks, schema, connection, monitor, completed>>

\* A promise of the queue was rejected while nothing awaited it, and the
\* loop, in its body, attaches no handler before the callback's tick is
\* over: node:18 (Dockerfile) raises the unhandled rejection as an uncaught
\* exception, the script installs no handler, and the process exits.
UnhandledRejection(t) ==
  /\ task[t].op = "each" /\ task[t].pc = "ready"
  /\ \E i \in DOMAIN task[t].nextPromises :
       task[t].promises[task[t].nextPromises[i]] = Rejection
  /\ task' = [task EXCEPT ![t] = [@ EXCEPT !.pc = "exited", !.driver = "exited"]]
  /\ UNCHANGED <<locations, forecast, history, clock, ticks, schema, connection, monitor, completed>>

\* The migration runs its loops one after the other.
LoopEnded(t) == task[t].op = "each" /\ task[t].pc \in {"done", "rejected"}

NextEach ==
  \/ StartEach("t1")
  \/ LoopEnded("t1") /\ StartEach("t2")
  \/ \E t \in Tasks, row \in RowValues : EachRow(t, row)
  \/ \E t \in Tasks : EachError(t)
  \/ \E t \in Tasks, err \in BOOLEAN : End(t, err)
  \/ \E t \in Tasks : IteratorNext(t)
  \/ \E t \in Tasks : IteratorResultArrives(t)
  \/ \E t \in Tasks : UnhandledRejection(t)

SpecEach == InitMonitor /\ [][NextEach]_vars

---------------------------------------------------------------------------
(* Claims about updateHistory, checked under SpecSync. *)

Syncing(t) == task[t].op = "updateHistory"

\* n consecutive hours from `from` on, as rows of the location and as
\* provider calls for it.
HourRows(l, from, n) ==
  [k \in 1..n |-> HistoryRow(l.id, from + (k - 1) * HOUR, Dry)]
HourCalls(l, from, n) ==
  [k \in 1..n |-> [lat |-> l.lat, lon |-> l.lon, dt |-> Num(from + (k - 1) * HOUR)]]

\* C1: an insert of updateHistory that hits an existing (locationId, hour) key
\* is treated as success: no run ends with the duplicate-key error, and the
\* hours are stored once.
C1_DuplicateAbsorbed ==
  /\ \A t \in Tasks : Syncing(t) => task[t].error # "UniqueViolation"
  /\ \A t, u \in Tasks :
       (/\ t # u /\ Syncing(t) /\ Syncing(u)
        /\ task[t].location.id = task[u].location.id
        /\ task[t].endTime = task[u].endTime
        /\ {task[t].pc, task[u].pc} \subseteq {"resolved", "rejected"}
        /\ {task[t].error, task[u].error} \subseteq {"none", "UniqueViolation"})
       => /\ task[t].pc = "resolved" /\ task[u].pc = "resolved"
          /\ \A k \in 1..48 :
               task[t].endTime - k * HOUR \in HistoryTimes(task[t].location.id)
                 \/ (/\ IsNum(task[t].location.lastWeatherTime)
                     /\ task[t].endTime - k * HOUR
                          <= task[t].location.lastWeatherTime.value)

\* C2, as claimed: a run that resolves for a location whose lastWeatherTime is
\* endTime - 10h has inserted exactly 10 rows.
C2_TenRows ==
  \A t \in Tasks :
    (/\ Syncing(t) /\ task[t].pc = "resolved"
     /\ task[t].location.lastWeatherTime = Num(task[t].endTime - 10 * HOUR))
    => Len(task[t].inserted) = 10

\* C2, amended: such a run has inserted exactly 9 rows, the hours
\* endTime - 9h, ..., endTime - 1h, and none for an hour already stored.
C2_NineRows ==
  \A t \in Tasks :
    (/\ Syncing(t) /\ task[t].pc = "resolved"
     /\ task[t].location.lastWeatherTime = Num(task[t].endTime - 10 * HOUR))
    => task[t].inserted =
         HourRows(task[t].location, task[t].endTime - 9 * HOUR, 9)

C2_Witness ==
  \E t \in Tasks :
    /\ Syncing(t) /\ task[t].pc = "resolved"
    /\ task[t].location.lastWeatherTime = Num(task[t].endTime - 10 * HOUR)
    /\ Len(task[t].inserted) = 9

\* C3: for a location with no stored history, updateHistory looks up and
\* inserts the hours endTime - 48h, endTime - 47h, ... in increasing order, one
\* lookup and one insert per hour, and has inserted exactly 48 rows, up to
\* endTime - 1h, when it resolves.
C3_FortyEightRows ==
  \A t \in Tasks :
    (Syncing(t) /\ task[t].location.lastWeatherTime = Undefined)
    => LET f == task[t]
           from == f.endTime - 48 * HOUR
       IN /\ f.calls = HourCalls(f.location, from, Len(f.calls))
          /\ f.inserted = HourRows(f.location, from, Len(f.inserted))
          /\ Len(f.inserted) <= Len(f.calls)
          /\ Len(f.calls) <= Len(f.inserted) + 1
          /\ f.pc = "resolved" => Len(f.inserted) = 48 /\ Len(f.calls) = 48

C3_Witness ==
  \E t \in Tasks :
    /\ Syncing(t) /\ task[t].location.lastWeatherTime = Undefined
    /\ task[t].pc = "resolved"
    /\ Len(task[t].inserted) = 48

\* C4: a run for a location that starts after a run for the same location and
\* the same endTime has resolved makes no provider call and inserts no row.
C4_Idempotent ==
  \A t \in Tasks :
    (Syncing(t) /\ task[t].afterCompleted)
    => task[t].calls = <<>> /\ task[t].inserted = <<>> /\ task[t].pc = "resolved"

C4_Witness ==
  \E t, u \in Tasks :
    /\ Syncing(t) /\ task[t].afterCompleted /\ task[t].pc = "resolved"
    /\ Syncing(u) /\ task[u].pc = "resolved" /\ Len(task[u].inserted) = 48
    /\ task[u].location.id = task[t].location.id
    /\ task[u].endTime = task[t].endTime

\* C5: every timestamp a run looks up or inserts lies in
\* [endTime - 48h, endTime) and after the location's lastWeatherTime, and
\* consecutive lookups are one hour apart.
C5_InsideWindow ==
  \A t \in Tasks :
    Syncing(t)
    => LET f == task[t]
           Inside(x) ==
             /\ f.endTime - 48 * HOUR <= x /\ x < f.endTime
             /\ IsNum(f.location.lastWeatherTime)
                  => x > f.location.lastWeatherTime.value
       IN /\ \A k \in DOMAIN f.calls : IsNum(f.calls[k].dt) /\ Inside(f.calls[k].dt.value)
          /\ \A k \in DOMAIN f.inserted : Inside(f.inserted[k].time)
          /\ \A k \in DOMAIN f.calls :
               k > 1 => f.calls[k].dt.value = f.calls[k - 1].dt.value + HOUR

C5_Witness ==
  \E t \in Tasks :
    /\ Syncing(t) /\ Len(task[t].calls) >= 2 /\ Len(task[t].inserted) >= 2
    /\ IsNum(task[t].location.lastWeatherTime)
    /\ task[t].location.lastWeatherTime.value < task[t].endTime - 48 * HOUR

\* C6: when the provider lookup or the insert fails (not by a duplicate key)
\* at some hour, the run rejects, it has looked up and inserted nothing for a
\* later hour and does nothing more, and the rows it inserted for the earlier
\* hours stay stored.
Failed(t) ==
  /\ Syncing(t) /\ task[t].pc = "rejected"
  /\ task[t].error \in {"ProviderError", "StorageError"}

C6_AtFailure ==
  \A t \in Tasks :
    Failed(t)
    => LET f == task[t] IN
       /\ f.calls[Len(f.calls)].dt = f.failedAt[1]
       /\ \A k \in DOMAIN f.inserted : f.inserted[k].time < f.failedAt[1].value
       /\ \A k \in DOMAIN f.inserted : f.inserted[k] \in history

C6_AfterFailure ==
  \A t \in Tasks :
    Failed(t)
    => /\ task'[t] = task[t]
       /\ \A k \in DOMAIN task[t].inserted : task[t].inserted[k] \in history'

C6_FailureAborts == []C6_AtFailure /\ [][C6_AfterFailure]_vars

C6_Witness ==
  \E t \in Tasks :
    /\ Failed(t) /\ Len(task[t].inserted) >= 2
    /\ \E u \in Tasks : u # t /\ task[u].pc = "resolved"

---------------------------------------------------------------------------
(* Claims about fetchAllHistory, checked under SpecBatch. *)

Batch(t) == task[t].op = "fetchAllHistory"

Range(seq) == {seq[k] : k \in DOMAIN seq}

\* The location's row as selectLocationQuery gave it before frame f inserted
\* anything.
RowBefore(f, l) ==
  LET before == {r.time : r \in {x \in history \ Range(f.inserted) :
                                   x.locationId = l.id}}
  IN [id |-> l.id, name |-> l.name, lat |-> l.lat, lon |-> l.lon,
      lastWeatherTime |-> IF before = {} THEN Undefined ELSE Num(SetMax(before)),
      oldestForecastTime |-> OldestForecastTime(l.id)]

\* C7: when updateHistory fails for one location, fetchAllHistory still
\* synchronizes every other registered location before it ends.
C7_BatchContinues ==
  \A t \in Tasks :
    (/\ Batch(t) /\ task[t].pc \in {"resolved", "rejected"}
     /\ task[t].error # "QueryError")
    => {task[t].syncs[k].location.id : k \in DOMAIN task[t].syncs} = LocationIds

\* The updateHistory call of fetchAllHistory that provider call c belongs to.
SyncOfCall(f, c) ==
  SetMax({k \in DOMAIN f.syncs : f.syncs[k].firstCall <= c})

---------------------------------------------------------------------------
(* Claims about backfillHistory, checked under SpecBackfill. *)

Backfill(t) == task[t].op = "backfillHistory"

Selected(f) ==
  f.backfilling \/ (f.pc = "resolved" /\ f.selected = NoLocation)

---------------------------------------------------------------------------
(* Claims about repeated backfillHistory invocations, checked under         *)
(* SpecRepeat.                                                              *)

\* The invocations of frame f: those that ended and the current one.
Runs(f) == Append(f.runs, RunRecord(f))

\* The stored hours of location id that the current invocation of f found.
StoredBefore(f, id) ==
  {r.time : r \in {x \in history \ Range(f.inserted) : x.locationId = id}}

---------------------------------------------------------------------------
(* Claims about setForecast and listForecast, checked under SpecForecast.   *)

Writing(t) == task[t].op = "setForecast"
Reading(t) == task[t].op = "listForecast"

\* C12: a setForecast that fails during its DELETE or its INSERT rejects with
\* the error, and the forecast rows of the location are the set stored before
\* the call: no row of it is gone and none of the batch shows, neither while
\* the transaction is open nor after it failed (as long as no other
\* setForecast for the location has committed meanwhile).
C12_AllOrNothing ==
  \A t \in DOMAIN task :
    Writing(t)
    => /\ (task[t].pc \in {"txDelete", "txInsert", "txCommit", "rejected"}
            /\ ~task[t].disturbed)
           => StoredForecast(task[t].location.id) = task[t].before
       /\ task[t].pc = "rejected"
           => /\ task[t].error \in {"StorageError", "UniqueViolation"}
              /\ task[t].deleted = {} /\ task[t].written = {}

C12_Witness ==
  \E t \in DOMAIN task :
    /\ Writing(t) /\ task[t].pc = "rejected" /\ task[t].error = "StorageError"
    /\ task[t].failedAt = <<"txInsert">>
    /\ task[t].before # {} /\ ~task[t].disturbed
    /\ StoredForecast(task[t].location.id) = task[t].before

\* The complete sets of forecast rows a location can hold: what it held at
\* the start and the batches.
CompleteSets(locationId) ==
  {ForecastRows(locationId, b) : b \in Batches \cup InitialForecasts}

\* C13: a scan of listForecast sees exactly one complete batch, whatever
\* setForecast calls for the location run meanwhile, and when setForecast
\* resolves the stored rows of the location are exactly its batch.
C13_NeverAMix ==
  \A t \in DOMAIN task :
    /\ (Reading(t) /\ task[t].pc = "resolved")
         => Range(task[t].seen) \in CompleteSets(task[t].location.id)
    /\ (Writing(t) /\ task[t].pc = "resolved")
         => task[t].atCommit = ForecastRows(task[t].location.id, task[t].hourly)

---------------------------------------------------------------------------
(* Claims about _updateForecast, checked under SpecRefresh.                 *)

Refreshing(t) == task[t].handler = "_updateForecast"

\* The calls of the log that looked the forecast up.
Lookups(log) == {k \in DOMAIN log : ~log[k].skipped}

\* C14, as claimed: a call that follows, within 2 hours, a call that looked
\* the forecast up and stored it, makes no lookup.
C14_OncePerTwoHours ==
  \A t \in DOMAIN task :
    Refreshing(t)
    => LET log == task[t].refreshes IN
       \A k \in DOMAIN log :
         (/\ k > 1 /\ log[k].afterStore /\ ~log[k - 1].skipped
          /\ log[k].at - log[k - 1].at < 2 * HOUR)
         => log[k].skipped

\* C14, amended: a call makes no lookup and leaves the store alone exactly
\* when the oldest stored forecast hour of the location is newer than 2 hours
\* before the call, and makes one lookup otherwise; a call that follows,
\* within 1 hour, a call that looked the forecast up and stored it, makes none.
C14_FreshSkips ==
  \A t \in DOMAIN task :
    Refreshing(t)
    => LET f == task[t]
           log == f.refreshes
       IN /\ \A k \in DOMAIN log :
               log[k].skipped <=> (/\ IsNum(log[k].oldest)
                                   /\ log[k].oldest.value > log[k].at - 2 * HOUR)
          /\ Len(f.calls) = Cardinality(Lookups(log))
          /\ (log # <<>> /\ log[Len(log)].skipped)
               => /\ f.pc = "resolved" /\ f.op = "_updateForecast"
                  /\ f.deleted = {} /\ f.written = {} /\ f.atCommit = {}
          /\ \A k \in DOMAIN log :
               (/\ k > 1 /\ log[k].afterStore /\ ~log[k - 1].skipped
                /\ log[k].at - log[k - 1].at <= HOUR)
               => log[k].skipped

C14_Witness ==
  \E t \in DOMAIN task :
    /\ Refreshing(t) /\ Len(task[t].refreshes) = 3
    /\ ~task[t].refreshes[1].skipped
    /\ task[t].refreshes[2].afterStore /\ task[t].refreshes[2].skipped
    /\ task[t].refreshes[2].at > task[t].refreshes[1].at
    /\ ~task[t].refreshes[3].skipped
    /\ Len(task[t].calls) = 2

---------------------------------------------------------------------------
(* Claims about the History Store, checked under SpecStore.                 *)

\* The insert of task t has just been rejected for its key.
DuplicateRejected(t) ==
  /\ task[t].pc = "insertWeatherHistory"
  /\ task'[t].pc = "rejected" /\ task'[t].error = "UniqueViolation"

C15_OneRowPerKey ==
  \A r, q \in history :
    (r.locationId = q.locationId /\ r.time = q.time) => r = q

C15_RowsStay ==
  /\ history \subseteq history'
  /\ \A t \in Tasks : DuplicateRejected(t) => history' = history

\* C15: the History Store holds at most one row per (locationId, time); an
\* insert at an existing key is rejected and leaves the stored row as it is;
\* no step of updateHistory, backfillHistory or setForecast changes or
\* removes a stored history row.
C15_HistoryImmutable == []C15_OneRowPerKey /\ [][C15_RowsStay]_vars

C15_Witness ==
  \E t \in Tasks :
    /\ task[t].pc = "rejected" /\ task[t].error = "UniqueViolation"
    /\ task[t].op \in {"updateHistory", "backfillHistory"}
    /\ \E r \in history :
         /\ r.locationId = Target(task[t]).id /\ r.time = task[t].time.value
         /\ r # HistoryRow(Target(task[t]).id, task[t].time.value, task[t].weather)

---------------------------------------------------------------------------
(* Claims about the Location Store and _addLocation, checked under          *)
(* SpecLocations.                                                           *)

\* The INSERT of task t's request has been answered.
Adding(t) ==
  /\ task[t].handler = "_addLocation"
  /\ task[t].pc \in {"getLocation", "resolved"}

SamePair(a, b) == a.lat = b.lat /\ a.lon = b.lon

\* C16: an insert of a location whose (lat, lon) a stored location has fails
\* (with the uniqueness violation, when the store is not failing otherwise),
\* the request is not acknowledged, and the rows stored before are unchanged:
\* one row has that (lat, lon), with the id and name it had.
C16_SecondInsertConflicts ==
  \A t \in Tasks :
    (Adding(t) /\ \E k \in DOMAIN task[t].stored : SamePair(task[t].stored[k], task[t].req))
    => LET f == task[t] IN
       /\ f.error \in {"UniqueViolation", "StorageError"}
       /\ f.response.kind # "ack"
       /\ \A k \in DOMAIN f.stored : locations[k] = f.stored[k]
       /\ Cardinality({k \in DOMAIN locations : SamePair(locations[k], f.req)}) = 1

C16_Witness ==
  \E t, u \in Tasks :
    /\ Adding(u) /\ task[u].response.kind = "ack"
    /\ Adding(t) /\ task[t].error = "UniqueViolation" /\ task[t].pc = "resolved"
    /\ SamePair(task[t].req, task[u].req) /\ task[t].req.name # task[u].req.name
    /\ LocationRow(task[u].req) \in Range(locations)

\* C17, as claimed: the insert is rejected for uniqueness exactly when a stored
\* location has the same (lat, lon) or the same name.
C17_ConflictIffPairOrName ==
  \A t \in Tasks :
    (Adding(t) /\ task[t].error # "StorageError")
    => (task[t].error = "UniqueViolation"
          <=> \E k \in DOMAIN task[t].stored :
                \/ SamePair(task[t].stored[k], task[t].req)
                \/ task[t].stored[k].name = task[t].req.name)

\* C17, amended: the insert is rejected for uniqueness exactly when a stored
\* location has the same name or the same id, that is the same coordinates
\* after rounding to two decimals (the same (lat, lon) among them); for every
\* other input the row is stored and the request acknowledged.
C17_ConflictIffIdOrName ==
  /\ \A k \in DOMAIN locations :
       locations[k].id = _toId(locations[k].lat, locations[k].lon)
  /\ \A t \in Tasks :
       (Adding(t) /\ task[t].error # "StorageError")
       => LET f == task[t]
              taken == \E k \in DOMAIN f.stored :
                         \/ f.stored[k].id = _toId(f.req.lat, f.req.lon)
                         \/ f.stored[k].name = f.req.name
          IN /\ (\E k \in DOMAIN f.stored : SamePair(f.stored[k], f.req)) => taken
             /\ f.error = "UniqueViolation" <=> taken
             /\ ~taken => /\ f.response.kind = "ack"
                           /\ LocationRow(f.req) \in Range(locations)

C17_Witness ==
  \E t \in Tasks :
    /\ Adding(t) /\ task[t].error = "UniqueViolation"
    /\ \A k \in DOMAIN task[t].stored :
         /\ ~SamePair(task[t].stored[k], task[t].req)
         /\ task[t].stored[k].name # task[t].req.name
    /\ \E u \in Tasks : Adding(u) /\ task[u].response.kind = "ack"

\* C18: an addLocation answered with CONFLICT carries the stored location
\* that has the request's name or its (lat, lon), and CONFLICT is answered
\* only when the insert failed for uniqueness.
C18_ConflictCarriesRow ==
  \A t \in Tasks :
    (/\ task[t].handler = "_addLocation" /\ task[t].response.kind = "error"
     /\ task[t].response.error = CONFLICT)
    => LET f == task[t] IN
       /\ f.error = "UniqueViolation"
       /\ f.response.location # Undefined
       /\ \E k \in DOMAIN locations :
            /\ f.response.location = selectLocationQuery(locations[k])
            /\ \/ locations[k].name = f.req.name
               \/ SamePair(locations[k], f.req)

\* C19: getLocation resolves with the stored location, with its derived
\* lastWeatherTime and oldestForecastTime, when one has the text as id or
\* name, and ends in a NotFound failure when none has.
C19_FoundOrNotFound ==
  \A t \in Tasks :
    (/\ task[t].op = "getLocation" /\ task[t].pc \in {"resolved", "rejected"}
     /\ task[t].error # "QueryError")
    => LET f == task[t]
           matches == {k \in DOMAIN locations :
                         locations[k].id = f.key \/ locations[k].name = f.key}
       IN IF matches # {}
            THEN /\ f.pc = "resolved"
                 /\ \E k \in matches : f.result = selectLocationQuery(locations[k])
          ELSE f.pc = "rejected" /\ f.error = "NotFound"

---------------------------------------------------------------------------
(* Claims about _summarizeWeatherHistory, checked under SpecSummary.        *)

Summarized(t) ==
  task[t].handler = "_summarizeWeatherHistory" /\ task[t].pc = "resolved"

\* The sum of amount[r] over the rows r of S.
RECURSIVE Total(_, _)
Total(S, amount) ==
  IF S = {} THEN 0
  ELSE LET r == CHOOSE x \in S : TRUE IN amount[r] + Total(S \ {r}, amount)

\* The stored rows of the location that are newer than `age` before `now`.
Within(locationId, now, age) ==
  {r \in history : r.locationId = locationId /\ r.time > now - age}

\* C20: the day, week and month totals of rain and of snow are the sums over
\* the stored history rows of the location that are newer than a day, a week
\* and 4 weeks before now: a row counts toward a total iff it is inside that
\* window (a row exactly at a cutoff is outside).
C20_WindowTotals ==
  \A t \in Tasks :
    Summarized(t)
    => LET f == task[t]
           rainOf == [r \in history |-> r.rain]
           snowOf == [r \in history |-> r.snow]
           in(age) == Within(f.location.id, f.scanAt, age)
       IN /\ f.rain = [day |-> Total(in(24 * 3600), rainOf),
                        week |-> Total(in(7 * 24 * 3600), rainOf),
                        month |-> Total(in(28 * 24 * 3600), rainOf)]
          /\ f.snow = [day |-> Total(in(24 * 3600), snowOf),
                        week |-> Total(in(7 * 24 * 3600), snowOf),
                        month |-> Total(in(28 * 24 * 3600), snowOf)]

\* The rows 12 hours, 5 days and 20 days ago with rain 5, 3 and 2 give
\* {day: 5, week: 8, month: 10}.
C20_Witness ==
  \E t \in Tasks :
    /\ Summarized(t)
    /\ {r \in history : r.locationId = task[t].location.id /\ r.rain # 0}
         = {Fallen(Seattle.id, task[t].scanAt - 12 * HOUR, 5, 0),
            Fallen(Seattle.id, task[t].scanAt - 5 * DAY, 3, 0),
            Fallen(Seattle.id, task[t].scanAt - 20 * DAY, 2, 0)}
    /\ task[t].rain = [day |-> 5, week |-> 8, month |-> 10]
    /\ task[t].response.rain = task[t].rain

\* The month total of `amount` at the call of t, from the stored rows.
MonthTotal(t, amount) ==
  Total(Within(task[t].location.id, task[t].scanAt, 28 * 24 * 3600), amount)

\* C21: the result has the rain key iff the month total of rain is not
\* zero, and the snow key iff the month total of snow is not zero; a key that
\* is present carries the day, week and month totals.
C21_KeyIffMonthTotal ==
  \A t \in Tasks :
    Summarized(t)
    => LET res == task[t].response IN
       /\ res.rain # Undefined <=> MonthTotal(t, [r \in history |-> r.rain]) # 0
       /\ res.snow # Undefined <=> MonthTotal(t, [r \in history |-> r.snow]) # 0
       /\ res.rain # Undefined
            => DOMAIN res.rain = {"day", "week", "month"} /\ res.rain = task[t].rain
       /\ res.snow # Undefined
            => DOMAIN res.snow = {"day", "week", "month"} /\ res.snow = task[t].snow

\* Rain is stored, but none in the last 4 weeks: no rain key; snow fell only
\* 20 days ago: the snow key with day 0, week 0, month 9.
C21_Witness ==
  \E t \in Tasks :
    /\ Summarized(t)
    /\ \E r \in history : r.locationId = task[t].location.id /\ r.rain # 0
    /\ task[t].response.rain = Undefined
    /\ task[t].response.snow = [day |-> 0, week |-> 0, month |-> 9]

---------------------------------------------------------------------------
(* Claims about _summarizeForecast, checked under SpecOutlook.              *)

ForecastSummarized(t) ==
  task[t].handler = "_summarizeForecast" /\ task[t].pc = "resolved"

\* The stored forecast rows of the location not later than `horizon` after now.
UpTo(locationId, now, horizon) ==
  {r \in forecast : r.locationId = locationId /\ r.time <= now + horizon}

\* C22: _summarizeForecast runs the forecast refresh of the location first
\* (which skips, or calls the provider), and what it returns has both
\* totals, each the sum over the stored forecast rows of the location whose
\* time is not later than 48 hours from now, 0 when there is none.
C22_ForecastTotals ==
  \A t \in Tasks :
    LET f == task[t] IN
    /\ f.handler = "_summarizeForecast" /\ f.pc \in {"summaryOpen", "summaryScan", "resolved"}
       => /\ Len(f.refreshes) = 1
          /\ f.refreshes[1].skipped <=> f.calls = <<>>
    /\ ForecastSummarized(t)
       => LET counted == UpTo(f.location.id, f.outlookAt, 48 * 3600) IN
          /\ DOMAIN f.response.summary = {"rain", "snow"}
          /\ f.response.summary.rain = Total(counted, [r \in forecast |-> r.rain])
          /\ f.response.summary.snow = Total(counted, [r \in forecast |-> r.snow])

\* Rows 47 and 48 hours from now are counted, rows 49 and 50 hours from now
\* are not.
C22_Witness ==
  \E t \in Tasks :
    /\ ForecastSummarized(t)
    /\ \E r \in forecast : r.locationId = Seattle.id /\ r.time = task[t].outlookAt + 48 * HOUR
    /\ \E r \in forecast : r.locationId = Seattle.id /\ r.time > task[t].outlookAt + 48 * HOUR
    /\ task[t].response.summary = [rain |-> 7, snow |-> 224]

\* Nothing stored and nothing fetched: both totals are 0.
C22_WitnessZero ==
  \E t \in Tasks :
    /\ ForecastSummarized(t)
    /\ StoredForecast(Seattle.id) = {}
    /\ task[t].response.summary = [rain |-> 0, snow |-> 0]

---------------------------------------------------------------------------
(* Claims about _whereToGo, checked under SpecWhere.                        *)

Asking(t) == task[t].endpoint = "whereToGo"

\* The registered location with the id.
Registration(id) == CHOOSE l \in Range(locations) : l.id = id

\* The great-circle distance in millimetres from the geocoded point of t to
\* the location with the id.
Distance(t, id) ==
  Millimetres[<<task[t].origin.lat, task[t].origin.lon>>]
             [<<Registration(id).lat, Registration(id).lon>>]

\* The candidates taken from the cursor whose fate is settled, and the one
\* the handler is busy with.
Settled(t) == {task[t].trail[k] : k \in DOMAIN task[t].trail}
Busy(t) ==
  IF Len(task[t].trail) < task[t].index
    THEN {task[t].found[task[t].index].id}
  ELSE {}

\* C23: a candidate of the bounding-box scan is discarded for its distance
\* iff its great-circle distance from the geocoded point is more than
\* 300,000 m; every other candidate goes on to the weather check.
C23_DiscardedIffBeyondRadius ==
  \A t \in Tasks :
    Asking(t)
    => /\ \A c \in Settled(t) : c.verdict = "far" <=> Distance(t, c.id) > 300000000
       /\ \A id \in Busy(t) : Distance(t, id) <= 300000000
       /\ \A k \in DOMAIN task[t].found :
            LET l == task[t].found[k] IN
            /\ l.lat > task[t].origin.lat - 2500 /\ l.lat < task[t].origin.lat + 2500
            /\ l.lon > task[t].origin.lon - 2500 /\ l.lon < task[t].origin.lon + 2500

\* Both inside the box: the candidate at 300,001.004 m was discarded for its
\* distance, the one at 299,998.960 m was emitted.
C23_Witness ==
  \E t \in Tasks :
    /\ Asking(t) /\ task[t].pc = "resolved"
    /\ \E c \in Settled(t) :
         c.id = Condon.id /\ c.verdict = "far" /\ Distance(t, c.id) = 300001004
    /\ \E c \in Settled(t) :
         c.id = Neskowin.id /\ c.verdict = "emitted" /\ Distance(t, c.id) = 299998960
    /\ \E k \in DOMAIN task[t].events :
         task[t].events[k].kind = "location"
         /\ task[t].events[k].location.id = Neskowin.id

\* The rain or snow total of the location over the `age` before `now`.
RainIn(id, now, age) == Total(Within(id, now, age), [r \in history |-> r.rain])
SnowIn(id, now, age) == Total(Within(id, now, age), [r \in history |-> r.snow])

\* More than 10 of rain or of snow in the last day, or more than 100 of snow
\* in the last week.
BadAt(id, now) ==
  \/ RainIn(id, now, 24 * 3600) > 10
  \/ SnowIn(id, now, 24 * 3600) > 10
  \/ SnowIn(id, now, 7 * 24 * 3600) > 100

\* The event the socket emitted for the location.
EventOf(t, id) ==
  CHOOSE e \in Range(task[t].events) : e.kind = "location" /\ e.location.id = id

\* C24: a candidate within the radius is excluded for its weather exactly
\* when its history has more than 10 of rain in the last day, or more than
\* 10 of snow in the last day, or more than 100 of snow in the last week; one
\* that is not goes on to the forecast summary, whether or not its summary
\* has the rain and snow keys.
C24_ExcludedIffBadWeather ==
  \A t \in Tasks :
    Asking(t)
    => /\ \A c \in Settled(t) :
            c.verdict # "far" => (c.verdict = "bad" <=> BadAt(c.id, c.at))
       /\ \A id \in Busy(t) :
            task[t].handler = "_summarizeForecast" => ~BadAt(id, task[t].scanAt)

\* 10 of rain in the last day: emitted; 11: excluded; 10 of snow in the last
\* day and 100 in the last week: emitted; 11 in the day, 101 in the week:
\* excluded; no rain and no snow key: emitted.
C24_Witness ==
  \E t \in Tasks :
    /\ Asking(t) /\ task[t].pc = "resolved"
    /\ \E c \in Settled(t) : c.id = Tacoma.id /\ c.verdict = "emitted"
                              /\ RainIn(c.id, c.at, DAY) = 10
    /\ \E c \in Settled(t) : c.id = Olympia.id /\ c.verdict = "bad"
                              /\ RainIn(c.id, c.at, DAY) = 11
    /\ \E c \in Settled(t) : c.id = Baker.id /\ c.verdict = "emitted"
                              /\ SnowIn(c.id, c.at, DAY) = 10
                              /\ SnowIn(c.id, c.at, WEEK) = 100
    /\ \E c \in Settled(t) : c.id = Snoqualmie.id /\ c.verdict = "bad"
    /\ \E c \in Settled(t) : c.id = Stevens.id /\ c.verdict = "bad"
                              /\ SnowIn(c.id, c.at, DAY) = 0
    /\ \E c \in Settled(t) : c.id = Seattle.id /\ c.verdict = "emitted"
    /\ EventOf(t, Seattle.id).rain = Undefined
    /\ EventOf(t, Seattle.id).snow = Undefined

\* The ids of the location events emitted, in order.
Streamed(t) ==
  LET events == SelectSeq(Emitted(task[t]), LAMBDA e : e.kind = "location")
  IN [k \in DOMAIN events |-> events[k].location.id]

\* The ids of the candidates settled as emitted, in the order of the scan.
Survivors(t) ==
  LET kept == SelectSeq(task[t].trail, LAMBDA c : c.verdict = "emitted")
  IN [k \in DOMAIN kept |-> kept[k].id]

\* Geocoding found no match.
NoMatch(t) ==
  Asking(t) /\ task[t].pc = "resolved" /\ task[t].origin = NoLocation

\* At every moment: the candidates are taken in the order of the scan, at
\* most the last one taken is not settled yet, and the location events
\* emitted are those of the candidates that passed both filters and got
\* their forecast summary, in that order; without a geocoding match the only
\* event is the NotFound error and nothing was scanned.
C25_EmittedSoFar ==
  \A t \in Tasks :
    Asking(t)
    => LET f == task[t] IN
       /\ f.index - Len(f.trail) \in {0, 1}
       /\ \A k \in DOMAIN f.trail : f.trail[k].id = f.found[k].id
       /\ Streamed(t) = Survivors(t)
       /\ \A k \in DOMAIN f.trail :
            f.trail[k].verdict = "emitted"
            => /\ f.events[f.trail[k].emitted].kind = "location"
               /\ f.events[f.trail[k].emitted].location.id = f.trail[k].id
       /\ NoMatch(t)
            => /\ Emitted(f) = <<[kind |-> "error", error |-> 404]>>
               /\ f.found = <<>> /\ f.index = 0 /\ f.calls = <<>>

\* In every step: what was emitted stays, at most one event is added, the
\* next candidate is taken only when the one before is settled (emitted, if
\* it passed the filters), and after the NotFound answer nothing happens.
C25_NextAfterEmit ==
  \A t \in Tasks :
    Asking(t)
    => /\ Len(Emitted(task'[t])) \in {Len(Emitted(task[t])), Len(Emitted(task[t])) + 1}
       /\ SubSeq(Emitted(task'[t]), 1, Len(Emitted(task[t]))) = Emitted(task[t])
       /\ task'[t].index # task[t].index
            => /\ task'[t].index = task[t].index + 1
               /\ Len(task[t].trail) = task[t].index
               /\ Streamed(t) = Survivors(t)
       /\ NoMatch(t) => task'[t] = task[t]

\* C25: whereToGo streams: each candidate that passed the distance and the
\* weather filter is emitted, once its forecast summary is attached, before
\* the next candidate is taken, in the order of the scan; when geocoding
\* finds no match a NotFound error is emitted, and no scan and no location
\* event follows.
C25_Streamed == []C25_EmittedSoFar /\ [][C25_NextAfterEmit]_vars

\* Two candidates have been emitted, others discarded, the next one is being
\* examined and the request is not acknowledged yet.
C25_Witness ==
  \E t \in Tasks :
    /\ Asking(t) /\ Busy(t) # {} /\ task[t].pc = "listWeather"
    /\ Len(Streamed(t)) = 2
    /\ \E c \in Settled(t) : c.verdict = "far"
    /\ \E c \in Settled(t) : c.verdict = "bad"

\* No match: the NotFound error and nothing else.
C25_WitnessNoMatch ==
  \E t \in Tasks : NoMatch(t) /\ Len(Emitted(task[t])) = 1

---------------------------------------------------------------------------
(* Claims about Database.open, checked under SpecOpen.                      *)

Opening(t) == task[t].op = "open"

\* The version has been read.
VersionRead(t) ==
  Opening(t) /\ task[t].pc \in {"readFile", "unsafe", "resolved"}

\* C26: the scripts a start has applied are those numbered recorded + 1,
\* recorded + 2, ... in this order, recorded being the version it read (0
\* when there was no version table); the script it runs is the next one;
\* none has a number at or below the version read or above the latest; and
\* when the start has succeeded all up to the latest are applied and the
\* recorded version is the latest.
C26_ScriptsInOrder ==
  \A t \in Tasks :
    LET f == task[t] IN
    /\ Opening(t)
       => /\ \A k \in DOMAIN f.applied :
               /\ f.applied[k] = f.schemaVersion + k
               /\ f.applied[k] > f.schemaVersion /\ f.applied[k] <= 2
          /\ f.applied # <<>> => VersionRead(t) \/ f.pc = "rejected"
    /\ VersionRead(t)
       => /\ f.schemaVersion = (IF f.recorded = Undefined THEN 0 ELSE f.recorded.value)
          /\ f.pc # "resolved" => f.script = f.schemaVersion + Len(f.applied) + 1
          /\ f.pc = "resolved"
               => /\ Len(f.applied) = 2 - f.schemaVersion
                  /\ schema.version = Num(2)
                  /\ schema.objects = Version1Objects \cup Version2Objects

\* A start on a new database has applied script 1, then script 2.
C26_Witness ==
  \E t \in Tasks :
    /\ Opening(t) /\ task[t].pc = "resolved"
    /\ task[t].recorded = Undefined
    /\ task[t].applied = <<1, 2>>

\* The script runs of the starts.
Runs_Scripts(t) == Range(task[t].ran)

\* The script has been applied to the store before.
AlreadyApplied(script, store) ==
  store.version # Undefined /\ store.version.value >= script

\* C27: a script that runs on a store on which it has already been applied
\* succeeds (unless the store fails under it) and leaves tables and recorded
\* version as they were.
C27_ReapplyingSucceeds ==
  \A t \in Tasks :
    \A run \in Runs_Scripts(t) :
      AlreadyApplied(run.script, run.from) /\ run.outcome # "StorageError"
      => run.outcome = "committed" /\ run.to = run.from

\* The same for script 2 alone.
C27_Version2Reapplies ==
  \A t \in Tasks :
    \A run \in Runs_Scripts(t) :
      /\ run.script = 2
      /\ AlreadyApplied(run.script, run.from) /\ run.outcome # "StorageError"
      => run.outcome = "committed" /\ run.to = run.from

C27_Version2Reapplied ==
  \E t \in Tasks :
    \E run \in Runs_Scripts(t) : run.script = 2 /\ AlreadyApplied(2, run.from)

\* The store after the first n statements of the script.
RECURSIVE After_Statements(_, _, _)
After_Statements(script, n, store) ==
  IF n = 0 THEN store
  ELSE Execute(script[n], After_Statements(script, n - 1, store)).store

\* Tables, indexes and recorded version of a store.
Content(store) == [objects |-> store.objects, version |-> store.version]

\* A script that failed has left the store as it was when it began, and the
\* open that ran it has failed: no Database is returned.
C28_FailedLeavesNothing ==
  \A t \in Tasks :
    \A run \in Runs_Scripts(t) :
      run.outcome # "committed"
      => /\ Content(run.to) = Content(run.from)
         /\ task[t].pc = "rejected"

\* The store changes by whole scripts only, and a start that has failed
\* stays failed.
C28_WholeScripts ==
  /\ Content(schema') # Content(schema)
     => \E k \in DOMAIN Scripts :
          Content(schema') = Content(After_Statements(Scripts[k], Len(Scripts[k]), schema))
  /\ \A t \in Tasks : task[t].pc = "rejected" => task'[t] = task[t]
  /\ UNCHANGED <<locations, history, forecast>>

\* C28: when a script fails during startup, Database.open fails and returns
\* no Database, and nothing of the failed script is applied: tables, data
\* and recorded version are as before the script started.
C28_NoPartialScript == []C28_FailedLeavesNothing /\ [][C28_WholeScripts]_vars

\* Script 1 failed at its third statement on a new database, which is still
\* empty; script 2 failed after version 1 was applied, which is still there.
C28_Witness ==
  \E t \in Tasks :
    /\ task[t].pc = "rejected"
    /\ \E run \in Runs_Scripts(t) :
         /\ run.outcome = "StorageError"
         /\ task[t].staged.objects # run.from.objects
         /\ Content(schema) = Content(run.from)

---------------------------------------------------------------------------
(* Claims about the scraper's shutdown, checked under SpecShutdown.        *)

\* A store operation failed because the pool had been ended.
Released(t) == task[t].error \in {"CONNECTION_ENDED", "CONNECTION_DESTROYED"}

\* C29: once Database.close() has been called, every store operation of the
\* tasks that still run completes, and none fails because the connection was
\* released.
C29_DrainedBeforeRelease == \A t \in Tasks : ~Released(t)

\* The case: fetchAllHistory has rejected, db.close() has been called while
\* backfillHistory was still running, and backfillHistory has run on to its
\* next store operation.
C29_ClosedWhileRunning ==
  /\ connection.state # "open"
  /\ task["t1"].pc = "rejected"
  /\ ~Released("t1")
  /\ connection.atEnd["t2"].pc = "getHistorical"
  /\ task["t2"].pc = "insertWeatherHistory"

---------------------------------------------------------------------------
(* Claims about Monitor.close, checked under SpecMonitor.                  *)

\* The task has called close() on a listening server, with the given force.
Closing(t, force) ==
  /\ task[t].op = "close"
  /\ task[t].force = force
  /\ task[t].atCall.server = "listening"

\* No call of close(true) has been made.
Unforced == \A t \in Tasks : task[t].op = "close" => ~task[t].force

\* A scrape has been served since the task's call.
ScrapedSince(t) == monitor.served > task[t].atCall.served

\* After close() without force, and with no close(true) around it, the
\* server is shut down exactly when a scrape has been served since the call,
\* and the call has resolved only then.
C30_WaitsForScrape ==
  \A t \in Tasks :
    Closing(t, FALSE) /\ Unforced =>
      /\ monitor.server = "closed" <=> ScrapedSince(t)
      /\ task[t].pc = "resolved" => monitor.server = "closed"
      /\ task[t].pc # "rejected"

\* After close(true) the server is shut down, scrape or no scrape.
C30_ForcedAtOnce ==
  \A t \in Tasks : Closing(t, TRUE) => monitor.server = "closed"

\* The scrape served, close() resolves.
C30_ThenResolves ==
  \A t \in Tasks :
    (Closing(t, FALSE) /\ ScrapedSince(t) /\ Unforced)
      ~> (task[t].pc = "resolved" \/ ~Unforced)

\* close(true) resolves without a scrape.
C30_ForcedResolves ==
  \A t \in Tasks : Closing(t, TRUE) ~> task[t].pc = "resolved"

\* C30: Monitor.close() without force does not shut the metrics server down
\* until one more /metrics scrape has been served after the call, then shuts
\* it down and resolves; Monitor.close(true) shuts it down at once, without
\* waiting for a scrape.
C30_CloseWaitsUnlessForced ==
  /\ []C30_WaitsForScrape
  /\ []C30_ForcedAtOnce
  /\ C30_ThenResolves
  /\ C30_ForcedResolves

\* The case: close() was called after one scrape, a request for another URL
\* was answered, a second scrape was served, and the call has resolved.
C30_Witness ==
  /\ Closing("t1", FALSE)
  /\ task["t1"].atCall.served = 1
  /\ task["t1"].atCall.notFound = 0
  /\ monitor.notFound = 1
  /\ monitor.served = 2
  /\ task["t1"].pc = "resolved"
  /\ task["t2"].pc = "idle"

\* The case of close(true): called with no scrape served, resolved with none.
C30_WitnessForced ==
  /\ Closing("t1", TRUE)
  /\ monitor.served = 0
  /\ task["t1"].pc = "resolved"

---------------------------------------------------------------------------
(* Claims about time(metric, func), checked under SpecTimed.               *)

Timed(t) == task[t].op = "time"

\* C31: time records exactly one observation per call in every outcome: at
\* once when func returns or throws, for a promise only when it has settled
\* and nothing while it is pending; the value or error of func reaches the
\* caller unchanged.
C31_OneObservation ==
  \A t \in Tasks :
    Timed(t) =>
      /\ task[t].observed = IF task[t].pc = "pending" THEN 0 ELSE 1
      /\ task[t].pc = "pending" <=>
            IsPromise(task[t].func) /\ task[t].passed.kind = "promise"
      /\ task[t].pc # "pending" =>
            /\ task[t].passed = task[t].func
            /\ task[t].pc = CASE task[t].func.kind = "returns" -> "returned"
                              [] task[t].func.kind = "throws" -> "thrown"
                              [] task[t].func.kind = "resolves" -> "resolved"
                              [] OTHER -> "rejected"

\* The case: a call whose promise has rejected and one whose promise is
\* pending.
C31_Witness ==
  /\ Timed("t1") /\ task["t1"].pc = "rejected" /\ task["t1"].observed = 1
  /\ Timed("t2") /\ task["t2"].pc = "pending" /\ task["t2"].metric = "Gauge"

---------------------------------------------------------------------------
(* Claims about the synchronization inside _summarizeWeatherHistory,       *)
(* checked under SpecSummary.                                              *)

\* The hours updateHistory has to fetch for the location it was given.
SyncHours(f) ==
  {h \in {FirstTime(f.location, f.endTime) + k * HOUR : k \in 0..48} :
     InWindow(h, f.endTime)}

\* The rows the call has inserted.
Synchronized(f) == {f.inserted[k] : k \in DOMAIN f.inserted}

\* C32: _summarizeWeatherHistory reads no history row before updateHistory
\* of the location has run to completion, so the rows it reads and the month
\* totals it returns include every hour this synchronization inserted; when
\* the synchronization fails no row is read and no summary is returned.
C32_SynchronizedFirst ==
  \A t \in Tasks :
    LET f == task[t] IN
    f.handler = "_summarizeWeatherHistory" =>
      /\ f.pc \in {"listWeather", "scan", "resolved"} =>
            /\ {r.time : r \in Synchronized(f)} = SyncHours(f)
            /\ Synchronized(f) \subseteq history
      /\ f.pc \in {"scan", "resolved"} =>
            /\ Synchronized(f) \subseteq {f.rows[i] : i \in DOMAIN f.rows}
            /\ \A r \in Synchronized(f) : After(r.time, f.aMonthAgo)
      /\ f.pc = "resolved" =>
            /\ f.cursor = Len(f.rows)
            /\ f.rain.month >= Total(Synchronized(f), [r \in Synchronized(f) |-> r.rain])
            /\ f.response.kind = "location"
      /\ f.pc = "rejected" =>
            /\ f.rows = <<>>
            /\ f.response = [kind |-> "none"]
            /\ f.rain.month = 0 /\ f.snow.month = 0

\* The case: the synchronization inserted two hours, one of them with rain,
\* and the summary was returned with them.
C32_Witness ==
  LET f == task["t1"] IN
  /\ f.handler = "_summarizeWeatherHistory"
  /\ f.pc = "resolved"
  /\ Len(f.inserted) = 2
  /\ f.inserted[1].rain = 5 /\ f.inserted[2].rain = 0
  /\ f.response.rain # Undefined

\* The case: the synchronization failed after it had inserted an hour.
C32_WitnessFailed ==
  LET f == task["t1"] IN
  /\ f.handler = "_summarizeWeatherHistory"
  /\ f.pc = "rejected"
  /\ Len(f.inserted) = 1

---------------------------------------------------------------------------
(* Claims about the hours of the history rows, checked under SpecLoader.   *)

\* C33: every history row that fetchAllHistory, updateHistory without an
\* endTime or backfillHistory has inserted is at a whole hour, a multiple of
\* 3600 seconds, after any sequence of these operations.
C33_WholeHours ==
  /\ \A r \in history : r.time % 3600 = 0
  /\ \A t \in Tasks : \A k \in DOMAIN task[t].inserted :
       task[t].inserted[k].time % 3600 = 0

\* The case: called a quarter past the hour, updateHistory has inserted this
\* hour's predecessor for Seattle and backfillHistory an older hour.
C33_Witness ==
  /\ clock % 3600 # 0
  /\ task["t1"].op = "updateHistory" /\ task["t1"].pc = "resolved"
  /\ Len(task["t1"].inserted) > 0
  /\ task["t2"].op = "backfillHistory" /\ task["t2"].pc = "resolved"
  /\ Len(task["t2"].inserted) > 0

\* The hours of a location's history leave no hour out between the oldest
\* and the newest.
Contiguous(locationId) ==
  \A a, b \in HistoryTimes(locationId) :
    a < b => \E c \in HistoryTimes(locationId) : c = a + HOUR

\* C34: for every location the stored history hours form one contiguous
\* run, after any sequence of updateHistory, fetchAllHistory and
\* backfillHistory runs at arbitrary times, runs that abort included.
C34_ContiguousRun == \A id \in LocationIds : Contiguous(id)

\* The case: a history that ended 51 hours ago, and updateHistory has
\* inserted the first hour of its 48-hour window.
C34_AfterLongPause ==
  \E t \in Tasks :
    /\ task[t].op = "updateHistory"
    /\ task[t].location.id = Portland.id
    /\ task[t].location.lastWeatherTime = Num(T0 - 51 * HOUR)
    /\ Len(task[t].inserted) = 1

---------------------------------------------------------------------------
(* Claims about the location backfillHistory selects, checked under        *)
(* SpecBackfill.                                                           *)

\* The location the call works on had a history row when the call started.
HadHistory(f) == IsNum(f.oldestAtStart[f.selected.id])

\* C35: backfillHistory calls the provider and inserts only for a location
\* that has a stored history row.
C35_OnlyWithHistory ==
  \A t \in Tasks :
    LET f == task[t] IN
    f.op = "backfillHistory" /\ (Len(f.calls) > 0 \/ Len(f.inserted) > 0)
      => HadHistory(f)

\* The case: no registered location has a history row, and backfillHistory
\* has asked the provider for the hour NaN of the location listed last.
C35_ProviderAskedForNaN ==
  \E t \in Tasks :
    LET f == task[t] IN
    /\ f.op = "backfillHistory"
    /\ \A id \in LocationIds : f.oldestAtStart[id] = Undefined
    /\ f.selected = f.rows[Len(f.rows)]
    /\ Len(f.calls) = 1
    /\ f.calls[1].dt = NaN

---------------------------------------------------------------------------
(* Claims about fetchAllHistory and backfillHistory running together,      *)
(* checked under SpecScraper.                                              *)

\* The key the task is about to insert.
Inserting(t) ==
  IF task[t].pc = "insertWeatherHistory" /\ IsNum(task[t].time)
    THEN {<<Target(task[t]).id, task[t].time.value>>}
  ELSE {}

\* The keys the task has inserted.
InsertedKeys(t) ==
  {<<task[t].inserted[k].locationId, task[t].inserted[k].time>> :
     k \in DOMAIN task[t].inserted}

\* C36: fetchAllHistory and backfillHistory, run together by the scraper,
\* never try to insert the same (locationId, hour) key, in any interleaving,
\* and neither fails with a duplicate key.
C36_DisjointKeys ==
  /\ \A t \in Tasks : task[t].error # "UniqueViolation"
  /\ \A t \in Tasks : \A key \in Inserting(t) : ~KeyExists(key[1], key[2])
  /\ \A t, u \in Tasks :
       t # u => (InsertedKeys(t) \cup Inserting(t))
                  \cap (InsertedKeys(u) \cup Inserting(u)) = {}

\* The case: both calls are inserting for the same location, which had no
\* history: fetchAllHistory upwards from the first hour of its window,
\* backfillHistory downwards from the hour before it.
C36_Witness ==
  /\ task["t1"].op = "fetchAllHistory" /\ task["t2"].op = "backfillHistory"
  /\ task["t1"].pc = "insertWeatherHistory"
  /\ task["t2"].pc = "insertWeatherHistory"
  /\ Target(task["t1"]).id = Target(task["t2"]).id
  /\ task["t2"].oldestAtStart[Target(task["t2"]).id] = Undefined
  /\ Len(task["t1"].inserted) > 0 /\ Len(task["t2"].inserted) > 0

---------------------------------------------------------------------------
(* Claims about the messages of a request, checked under SpecRequests.     *)

\* The task serves an addLocation, listLocations or whereToGo request.
Serves(t) ==
  task[t].op = "_addLocation" \/ task[t].endpoint \in {"listLocations", "whereToGo"}

\* A message on the event named by requestId: the empty acknowledgement or
\* an object with an error code.
Terminal(e) == e.kind = "done" \/ (e.kind = "error" /\ "error" \in DOMAIN e)

\* The handler has returned.
Answered(t) == task[t].pc \in {"resolved", "rejected"}

\* C37: for every addLocation, listLocations and whereToGo request, in every
\* outcome, exactly one terminal message is emitted on the event named by
\* requestId, and no `<requestId>_location` event follows it: while the
\* handler runs no terminal message has been emitted, and when it has
\* returned the last message, and only the last, is terminal.
C37_OneTerminal ==
  \A t \in Tasks :
    Serves(t) =>
      LET events == Emitted(task[t]) IN
      /\ \A k \in DOMAIN events : Terminal(events[k]) <=> (Answered(t) /\ k = Len(events))
      /\ Answered(t) => Len(events) > 0
      /\ \A k \in DOMAIN events :
           ~Terminal(events[k]) => events[k].kind = "location"

\* The case: a listLocations request failed after it had emitted a location.
C37_Witness ==
  /\ task["t1"].endpoint = "listLocations"
  /\ task["t1"].pc = "rejected"
  /\ Len(Emitted(task["t1"])) = 3
  /\ Emitted(task["t1"])[3] = [kind |-> "error", error |-> INTERNAL]

\* The case: an addLocation request answered with Conflict.
C37_WitnessConflict ==
  /\ task["t1"].op = "_addLocation"
  /\ Len(task["t1"].events) = 1
  /\ task["t1"].events[1].kind = "error" /\ task["t1"].events[1].error = CONFLICT

---------------------------------------------------------------------------
(* Claims about calls of close() that meet, checked under SpecMonitor.     *)

\* The call of close() has not returned.
PendingClose(t) ==
  task[t].op = "close" /\ task[t].pc \in {"closeProm", "serverClose", "notRunning"}

\* server.close was called on a server that was not running.
ClosedAgain ==
  \/ monitor.listener \in {"notRunning", "rejected"}
  \/ \E t \in Tasks : task[t].pc = "notRunning"
  \/ \E t \in Tasks : task[t].error = "ERR_SERVER_NOT_RUNNING"

\* Every call of close() that is pending when the server has been shut
\* down resolves.
C38_PendingResolves ==
  \A t \in Tasks :
    (monitor.server = "closed" /\ PendingClose(t)) ~> task[t].pc = "resolved"

\* C38: once the metrics server has been shut down every pending call of
\* close() resolves, a close() that waited for a scrape when close(true)
\* shut the server down included, and the server is closed at most once.
C38_ClosedOnceAllResolve == C38_PendingResolves /\ [](~ClosedAgain)

\* The case: close() waits for a scrape, close(true) has shut the server
\* down and returned, no scrape is in progress and none will be accepted.
C38_WaitsForEver ==
  /\ task["t1"].op = "close" /\ ~task["t1"].force /\ task["t1"].pc = "closeProm"
  /\ task["t2"].op = "close" /\ task["t2"].force /\ task["t2"].pc = "resolved"
  /\ monitor.server = "closed" /\ monitor.scraping = 0
  /\ monitor.closeProm = "pending" /\ monitor.listeners = 1

\* The case: the scrape in progress ended after close(true), and the
\* listener closed the server a second time.
C38_SecondClose ==
  /\ task["t1"].op = "close" /\ ~task["t1"].force /\ task["t1"].pc = "closeProm"
  /\ task["t2"].op = "close" /\ task["t2"].force
  /\ monitor.listener = "rejected"

---------------------------------------------------------------------------
(* Claims about EachRowIterator, checked under SpecEach. *)

Iterating(t) == task[t].op = "each"

\* What the loop has been given is the start of what the driver produced,
\* nothing follows a done result or a rejection, and no queue was found
\* empty.
InOrderOnce(f) ==
    /\ f.pc # "threw" /\ f.driver # "threw"
    /\ Len(f.received) <= Len(f.produced)
    /\ f.received = SubSeq(f.produced, 1, Len(f.received))
    /\ \A i \in 1..(Len(f.received) - 1) : f.received[i].kind = "row"
    /\ f.pc = "done" =>
         /\ f.received # <<>>
         /\ f.received[Len(f.received)] = DoneResult
         /\ RowsProduced(f) = Len(f.received) - 1
    /\ f.pc = "rejected" =>
         /\ f.received # <<>>
         /\ f.received[Len(f.received)] = Rejection
    /\ f.pc \in {"ready", "awaiting", "exited"} =>
         \A i \in DOMAIN f.received : f.received[i].kind = "row"

\* The queues alone: results are handed out in production order, each once.
C39_QueuesInStep == \A t \in Tasks : Iterating(t) => InOrderOnce(task[t])

\* C39: a for await loop over EachRowIterator is given every row the driver
\* produced exactly once and in production order, then a single done result
\* or the driver's error at the position where it occurred, whatever the
\* interleaving of the driver's callbacks with the calls of next(); next()
\* never finds the queue of promises empty.
C39_RowsInOrderOnce ==
  \A t \in Tasks : Iterating(t) =>
    /\ InOrderOnce(task[t])
    /\ task[t].pc # "exited"

\* The case: the process has exited with a row produced before the error
\* that the loop was never given.
C39_RowNeverDelivered ==
  \E t \in Tasks :
    /\ Iterating(t) /\ task[t].pc = "exited"
    /\ Len(task[t].received) >= 1
    /\ Len(task[t].produced) >= Len(task[t].received) + 2
    /\ task[t].produced[Len(task[t].received) + 1].kind = "row"

\* The case: the loop has ended after three rows, having waited for the
\* driver at least once.
C39_Witness ==
  \E t \in Tasks :
    /\ Iterating(t) /\ task[t].pc = "done"
    /\ Len(task[t].received) >= 4

\* The case: the driver is two callbacks ahead of the loop.
C39_DriverAhead ==
  \E t \in Tasks :
    /\ Iterating(t) /\ task[t].pc = "ready"
    /\ Len(task[t].nextPromises) >= 3 /\ Len(task[t].received) >= 1

\* The case: the driver's error reached the loop after two rows.
C39_WitnessRejected ==
  \E t \in Tasks :
    /\ Iterating(t) /\ task[t].pc = "rejected"
    /\ Len(task[t].received) >= 3

====
